---- MODULE Spec2Model ----
(***************************************************************************)
(* Annotation and reading-state engine of the EasierLightNovel web reader. *)
(*                                                                         *)
(*   Spec         readerStore (highlights, pendingHighlights,              *)
(*                highlightMap) driven by the SelectionMenu handlers and   *)
(*                by ReaderPage's chapter loading                          *)
(*   SpecStore    the operations of readerStore in any order               *)
(*   SpecBuild    buildHighlightMap as a pure function of its arguments    *)
(*   SpecRestore  useScrollProgress: the restore effect and the scroll     *)
(*                listener                                                 *)
(*   SpecAttempts one restoration in content of constant height whose     *)
(*                scroll commands may all miss their target                *)
(*   SpecTerminal the restore effect with changing options and content    *)
(*                height, without the reader's scrolling                   *)
(*   SpecNavigate ReaderPage deriving the options of the restore effect   *)
(*                from its queries and the chapter navigation              *)
(*   SpecFlush    ContentCanvas saving the reading position:               *)
(*                flushProgress and the cleanups of its effects            *)
(*   SpecContext  ReaderSidebar's collectHighlightText as a pure function  *)
(***************************************************************************)
EXTENDS Integers, Sequences, FiniteSets, Bags, TLC

VARIABLES
    \* ---- readerStore (zustand) ----
    chapter,            \* ChapterResponse | null, as an index into ChapterData
    chapterIndex,       \* number | null
    highlights,         \* ChapterHighlightData[]
    pendingHighlights,  \* PendingHighlight[]
    highlightMap,       \* HighlightMap
    \* ---- SelectionMenu component state ----
    mounted,            \* a SelectionMenu instance is rendered
    isOpen,
    coords,
    isProcessing,
    existingHighlightId,
    \* ---- asynchronous context ----
    requests,           \* persistence requests that have not settled
    pc,                 \* position inside the handler that is running
    cur,                \* the request the running handler belongs to
    now,                \* Date.now()
    nextId,             \* next id the highlight service assigns
    fetched,            \* chapters in the query cache
    \* ---- buildHighlightMap called on its own ----
    call,
    ret,
    \* ---- useScrollProgress ----
    initialPercentage,          \* option, in hundredths
    isChapterSwitch,            \* option
    effects,                    \* runs of the restore effect so far
    isRestoredRef,
    isProgrammaticScrollRef,
    lastSavedPercentageRef,     \* a fraction
    resizeObserverRef,          \* the effect run whose observer is observing
    resizePending,              \* a size notification waits for delivery
    closures,                   \* p and restoreAttempts of each effect run
    rafs,                       \* callbacks given to requestAnimationFrame, in order
    timers,                     \* setTimeout(tryRestore, restoreDelay) pending, in order
    scrollTop,                  \* container.scrollTop
    layout,                     \* container.scrollHeight and clientHeight
    resizes,                    \* changes of the content height so far
    misses,                     \* scroll commands not carried out so far
    scrollEvent,                \* a scroll event waits for dispatch, and what moved the offset
    saveTimeoutRef,             \* the debounced save is pending, and the event that set it
    progressChange,             \* the last call of onProgressChange
    scrolls,                    \* scrolls of the reader so far
    \* ---- ContentCanvas ----
    canvasMounted,              \* a ContentCanvas instance is rendered
    canvasChapter,              \* chapter.index of the store's chapter
    currentSegmentIndex,        \* of the store
    rendered,                   \* chapter and currentSegmentIndex of the committed render
    saveProgressTimeoutRef,     \* the debounced flush is pending, with the render it closes over
    viewTop,                    \* top of the viewport, in segment heights
    writes,                     \* updateReadingProgress requests that have not settled
    persisted,                  \* the progress the backend holds
    arrived,                    \* number of the latest write the backend has stored
    lastFlushed,                \* the last write issued
    sinceMove,                  \* payloads written since the position last changed
    \* ---- ReaderPage component state ----
    progressData,               \* the progress query: its status and data
    currentChapterIndex,        \* number | null
    firstLoadedChapter          \* number | null

storeVars == <<chapter, chapterIndex, highlights, pendingHighlights, highlightMap>>
menuVars  == <<mounted, isOpen, coords, isProcessing, existingHighlightId>>
asyncVars == <<requests, pc, cur, now, nextId, fetched>>
fnVars    == <<call, ret>>
scrollVars ==
    <<initialPercentage, isChapterSwitch, effects, isRestoredRef,
      isProgrammaticScrollRef, lastSavedPercentageRef, resizeObserverRef,
      resizePending, closures, rafs, timers, scrollTop, layout, resizes, misses,
      scrollEvent, saveTimeoutRef, progressChange, scrolls>>
canvasVars ==
    <<canvasMounted, canvasChapter, currentSegmentIndex, rendered, saveProgressTimeoutRef,
      viewTop, writes, persisted, arrived, lastFlushed, sinceMove>>
pageVars   == <<progressData, currentChapterIndex, firstLoadedChapter>>
readerVars == <<storeVars, menuVars, asyncVars, fnVars, canvasVars, pageVars>>

-----------------------------------------------------------------------------
(* Bounds of the model *)

MaxTime == 2        \* Date.now() stops advancing here
MaxId == 2          \* last id the highlight service hands out
MaxRanges == 2      \* ranges per list in SpecBuild

-----------------------------------------------------------------------------
(* Values *)

NoChapter == -1     \* null for chapter and chapterIndex
NoId == 0           \* null for existingHighlightId; !existingHighlightId also covers 0
NoStyle == "none"   \* Map.get of a missing key

Sentinel == 9999

Min(a, b) == IF a < b THEN a ELSE b
Max(a, b) == IF a > b THEN a ELSE b

\* HIGHLIGHT_COLORS offered by the menu (two of the five names)
Colors == {"yellow", "green"}

Range(ss, st, es, et) ==
    [start_segment_index |-> ss, start_token_idx |-> st,
     end_segment_index |-> es, end_token_idx |-> et]

NoCoords == Range(-1, -1, -1, -1)

Text(n) == [type |-> "text", tokens |-> n]
Image == [type |-> "image", tokens |-> 0]

Confirmed(id, r, style) ==
    [id |-> id,
     start_segment_index |-> r.start_segment_index, start_token_idx |-> r.start_token_idx,
     end_segment_index |-> r.end_segment_index, end_token_idx |-> r.end_token_idx,
     style_category |-> style]

Pending(tempId, r, style, chapterIdx) ==
    [tempId |-> tempId, chapter_index |-> chapterIdx,
     start_segment_index |-> r.start_segment_index, start_token_idx |-> r.start_token_idx,
     end_segment_index |-> r.end_segment_index, end_token_idx |-> r.end_token_idx,
     style_category |-> style]

RangeOf(h) ==
    Range(h.start_segment_index, h.start_token_idx, h.end_segment_index, h.end_token_idx)

\* Chapter responses of the book, as the chapter query caches them.
\* Chapter 0: three text segments of five tokens, no highlight yet.
\* Chapter 1: an image between two text segments, one stored highlight.
ChapterData ==
    [c \in {0, 1} |->
        IF c = 0
        THEN [segments |-> <<Text(5), Text(5), Text(5)>>, highlights |-> <<>>]
        ELSE [segments |-> <<Text(2), Image, Text(2)>>,
              highlights |-> <<Confirmed(1, Range(0, 1, 2, 0), "blue")>>]]

ChapterIds == DOMAIN ChapterData

\* Token ranges the user selects in the rendered chapter (document order).
Selections(c) ==
    IF c = 0 THEN {Range(0, 3, 1, 2), Range(1, 1, 1, 3)}
    ELSE IF c = 1 THEN {Range(0, 1, 2, 0), Range(2, 0, 2, 1)}
    ELSE {}

-----------------------------------------------------------------------------
(* HighlightMap                                                            *)
(*                                                                         *)
(* A Map<"seg-tok", style> is held as its maximal runs: a run              *)
(* [seg, lo, hi, style] stands for the entries "seg-lo" .. "seg-hi", all   *)
(* with that style.  Runs are disjoint and no two adjacent runs of a       *)
(* segment have the same style, so equal maps have equal run sets.         *)
(* getTokenKey is injective on non-negative indices, so the pair           *)
(* (seg, tok) stands for the key string.                                   *)

EmptyMap == {}

Run(s, lo, hi, style) == [seg |-> s, lo |-> lo, hi |-> hi, style |-> style]

\* map.get(getTokenKey(s, t))
MapGet(map, s, t) ==
    LET hit == {r \in map : r.seg = s /\ r.lo <= t /\ t <= r.hi}
    IN IF hit = {} THEN NoStyle ELSE (CHOOSE r \in hit : TRUE).style

MapHas(map, s, t) == \E r \in map : r.seg = s /\ r.lo <= t /\ t <= r.hi

\* the keys of the map, as (seg, tok) pairs
MapKeys(map) == UNION {{<<r.seg, t>> : t \in r.lo..r.hi} : r \in map}

\* for (let t = lo; t <= hi; t++) map.set(getTokenKey(s, t), style)
SetRun(map, s, lo, hi, style) ==
    IF lo > hi THEN map
    ELSE
      LET here  == {r \in map : r.seg = s}
          left  == {Run(s, r.lo, Min(r.hi, lo - 1), r.style) : r \in {x \in here : x.lo < lo}}
          right == {Run(s, Max(r.lo, hi + 1), r.hi, r.style) : r \in {x \in here : x.hi > hi}}
          kept  == left \cup right
          ladj  == {r \in kept : r.hi = lo - 1 /\ r.style = style}
          radj  == {r \in kept : r.lo = hi + 1 /\ r.style = style}
          nlo   == IF ladj = {} THEN lo ELSE (CHOOSE r \in ladj : TRUE).lo
          nhi   == IF radj = {} THEN hi ELSE (CHOOSE r \in radj : TRUE).hi
      IN (map \ here) \cup (kept \ (ladj \cup radj)) \cup {Run(s, nlo, nhi, style)}

\* segmentTokenCounts: array index -> tokens.length, text segments only
segmentTokenCounts(segments) ==
    [i \in {j - 1 : j \in {k \in DOMAIN segments : segments[k].type = "text"}}
        |-> segments[i + 1].tokens]

\* endT that visits nothing in a segment whose count is unknown
EndT_KnownOnly(s, endSeg, endTok, counts) ==
    IF s = endSeg THEN endTok
    ELSE IF s \in DOMAIN counts THEN counts[s] ELSE -1

\* endT without the case of the last segment of the range
EndT_WholeSegment(s, endSeg, endTok, counts) ==
    IF s \in DOMAIN counts THEN counts[s] ELSE Sentinel

\* last token index visited in segment s
EndT(s, endSeg, endTok, counts) ==
    IF s = endSeg THEN endTok
    ELSE IF s \in DOMAIN counts THEN counts[s] ELSE Sentinel

RECURSIVE processSegments(_, _, _, _, _, _, _, _)
processSegments(map, s, startSeg, startTok, endSeg, endTok, style, counts) ==
    IF s > endSeg THEN map
    ELSE
      LET startT == IF s = startSeg THEN startTok ELSE 0
          endT == EndT(s, endSeg, endTok, counts)
      IN processSegments(SetRun(map, s, startT, endT, style),
                         s + 1, startSeg, startTok, endSeg, endTok, style, counts)

processHighlight(map, h, counts) ==
    processSegments(map, h.start_segment_index,
                    h.start_segment_index, h.start_token_idx,
                    h.end_segment_index, h.end_token_idx,
                    h.style_category, counts)

RECURSIVE forEachHighlight(_, _, _)
forEachHighlight(map, hs, counts) ==
    IF hs = <<>> THEN map
    ELSE forEachHighlight(processHighlight(map, Head(hs), counts), Tail(hs), counts)

\* buildHighlightMap with the pending ranges processed before the confirmed ones
buildHighlightMap_PendingFirst(hs, pending, segments) ==
    LET counts == segmentTokenCounts(segments)
    IN forEachHighlight(forEachHighlight(EmptyMap, pending, counts), hs, counts)

\* segments is <<>> when the argument is undefined
buildHighlightMap(hs, pending, segments) ==
    LET counts == segmentTokenCounts(segments)
    IN forEachHighlight(forEachHighlight(EmptyMap, hs, counts), pending, counts)

SegmentsOf(c) == IF c = NoChapter THEN <<>> ELSE ChapterData[c].segments

-----------------------------------------------------------------------------
(* readerStore operations *)

defaultStore ==
    /\ chapter' = NoChapter
    /\ chapterIndex' = NoChapter
    /\ highlights' = <<>>
    /\ highlightMap' = EmptyMap
    /\ pendingHighlights' = <<>>

\* setChapter that leaves the previous chapter's pending highlights in place
setChapter_KeepPending(c) ==
    LET hs == IF c = NoChapter THEN <<>> ELSE ChapterData[c].highlights
    IN /\ pendingHighlights' = pendingHighlights
       /\ chapter' = c
       /\ highlights' = hs
       /\ highlightMap' = buildHighlightMap(hs, <<>>, SegmentsOf(c))

setChapter(c) ==
    LET hs == IF c = NoChapter THEN <<>> ELSE ChapterData[c].highlights
    IN /\ pendingHighlights' = <<>>
       /\ chapter' = c
       /\ highlights' = hs
       /\ highlightMap' = buildHighlightMap(hs, <<>>, SegmentsOf(c))

setHighlights(hs) ==
    /\ highlights' = hs
    /\ highlightMap' = buildHighlightMap(hs, pendingHighlights, SegmentsOf(chapter))
    /\ UNCHANGED <<chapter, pendingHighlights>>

\* addHighlight that rebuilds the map but loses the new entry
addHighlight_Dropped(h) ==
    /\ highlights' = highlights
    /\ highlightMap' = buildHighlightMap(highlights, pendingHighlights, SegmentsOf(chapter))
    /\ UNCHANGED <<chapter, pendingHighlights>>

addHighlight(h) ==
    LET newHighlights == Append(highlights, h)
    IN /\ highlights' = newHighlights
       /\ highlightMap' = buildHighlightMap(newHighlights, pendingHighlights, SegmentsOf(chapter))
       /\ UNCHANGED <<chapter, pendingHighlights>>

\* addHighlightOptimistic that rebuilds the map from the old pending list
addHighlightOptimistic_StaleMap(h) ==
    /\ pendingHighlights' = Append(pendingHighlights, h)
    /\ highlightMap' = buildHighlightMap(highlights, pendingHighlights, SegmentsOf(chapter))
    /\ UNCHANGED <<chapter, highlights>>

addHighlightOptimistic(h) ==
    LET newPending == Append(pendingHighlights, h)
    IN /\ pendingHighlights' = newPending
       /\ highlightMap' = buildHighlightMap(highlights, newPending, SegmentsOf(chapter))
       /\ UNCHANGED <<chapter, highlights>>

\* removeHighlight with the filter test inverted
removeHighlight_Inverted(id) ==
    LET newHighlights == SelectSeq(highlights, LAMBDA h : h.id = id)
    IN /\ highlights' = newHighlights
       /\ highlightMap' = buildHighlightMap(newHighlights, pendingHighlights, SegmentsOf(chapter))
       /\ UNCHANGED <<chapter, pendingHighlights>>

removeHighlight(id) ==
    LET newHighlights == SelectSeq(highlights, LAMBDA h : h.id # id)
    IN /\ highlights' = newHighlights
       /\ highlightMap' = buildHighlightMap(newHighlights, pendingHighlights, SegmentsOf(chapter))
       /\ UNCHANGED <<chapter, pendingHighlights>>

\* removePendingHighlight with the filter test inverted
removePendingHighlight_Inverted(tempId) ==
    LET newPending == SelectSeq(pendingHighlights, LAMBDA h : h.tempId = tempId)
    IN /\ pendingHighlights' = newPending
       /\ highlightMap' = buildHighlightMap(highlights, newPending, SegmentsOf(chapter))
       /\ UNCHANGED <<chapter, highlights>>

removePendingHighlight(tempId) ==
    LET newPending == SelectSeq(pendingHighlights, LAMBDA h : h.tempId # tempId)
    IN /\ pendingHighlights' = newPending
       /\ highlightMap' = buildHighlightMap(highlights, newPending, SegmentsOf(chapter))
       /\ UNCHANGED <<chapter, highlights>>

resetReader == defaultStore

-----------------------------------------------------------------------------
(* SelectionMenu *)

NoReq == [kind |-> "none", tempId |-> 0, chapter_index |-> NoChapter, range |-> NoCoords,
          style |-> NoStyle, id |-> NoId, own |-> FALSE]

CreateReq(tempId, r, style, chapterIdx) ==
    [kind |-> "create", tempId |-> tempId, chapter_index |-> chapterIdx, range |-> r,
     style |-> style, id |-> NoId, own |-> TRUE]

DeleteReq(id) ==
    [kind |-> "delete", tempId |-> 0, chapter_index |-> NoChapter, range |-> NoCoords,
     style |-> NoStyle, id |-> id, own |-> TRUE]

\* the state a SelectionMenu instance is created with
freshMenu ==
    /\ isOpen' = FALSE
    /\ coords' = NoCoords
    /\ isProcessing' = FALSE
    /\ existingHighlightId' = NoId

\* the instance that issued the outstanding requests is gone: its state
\* setters no longer reach a rendered menu
Disown(reqs) ==
    LET rs == BagToSet(reqs)
        orphan(r) == [r EXCEPT !.own = FALSE]
    IN [o \in {orphan(r) : r \in rs} |->
           (IF o \in rs THEN reqs[o] ELSE 0) +
           (IF [o EXCEPT !.own = TRUE] \in rs THEN reqs[[o EXCEPT !.own = TRUE]] ELSE 0)]

SeqToSet(q) == {q[i] : i \in DOMAIN q}

SetMax(S) == CHOOSE x \in S : \A y \in S : y <= x

\* matchingHighlights.reduce(...)?.id ?? null
latestHighlightId(hs, r) ==
    LET matching == {h.id : h \in {x \in SeqToSet(hs) : RangeOf(x) = r}}
    IN IF matching = {} THEN NoId ELSE SetMax(matching)

\* handleMouseUp's timer callback, selection inside the reader content.
\* The callback runs 10 ms after the mouse-up, so Date.now() has passed
\* every value an earlier click has read.
HandleMouseUp(sel) ==
    /\ mounted /\ pc = "idle"
    /\ sel \in Selections(chapter)
    /\ now < MaxTime
    /\ now' = now + 1
    /\ coords' = sel
    /\ existingHighlightId' = latestHighlightId(highlights, sel)
    /\ isOpen' = TRUE
    /\ UNCHANGED <<storeVars, mounted, isProcessing, requests, pc, cur, nextId, fetched, fnVars, scrollVars, pageVars, canvasVars>>

\* handleMouseUp's timer callback, selection collapsed
HandleMouseUpCollapsed ==
    /\ mounted /\ pc = "idle"
    /\ coords # NoCoords
    /\ isOpen' = FALSE
    /\ coords' = NoCoords
    /\ UNCHANGED <<storeVars, mounted, isProcessing, existingHighlightId, asyncVars, fnVars, scrollVars, pageVars, canvasVars>>

\* cancel button, useDismiss, handleSelectionChange, handleTTS
CloseMenu ==
    /\ mounted /\ pc = "idle"
    /\ isOpen
    /\ isOpen' = FALSE
    /\ UNCHANGED <<storeVars, mounted, coords, isProcessing, existingHighlightId, asyncVars, fnVars, scrollVars, pageVars, canvasVars>>

\* a colour button is rendered and enabled
ColorButtonEnabled == mounted /\ isOpen /\ existingHighlightId = NoId /\ ~isProcessing

\* the delete button is rendered and enabled
DeleteButtonEnabled == mounted /\ isOpen /\ existingHighlightId # NoId /\ ~isProcessing

\* handleHighlight with one temporary id for every create
HandleHighlight_FixedTempId(color) ==
    /\ pc = "idle"
    /\ ColorButtonEnabled
    /\ ~(coords = NoCoords \/ chapterIndex = NoChapter \/ isProcessing)
    /\ isProcessing' = TRUE
    /\ addHighlightOptimistic(Pending(0, coords, color, chapterIndex))
    /\ isOpen' = FALSE
    /\ cur' = CreateReq(0, coords, color, chapterIndex)
    /\ pc' = "createIssue"
    /\ UNCHANGED <<chapterIndex, mounted, coords, existingHighlightId,
                   requests, now, nextId, fetched, fnVars, scrollVars, pageVars, canvasVars>>

\* handleHighlight up to the optimistic update
HandleHighlight(color) ==
    /\ pc = "idle"
    /\ ColorButtonEnabled
    /\ ~(coords = NoCoords \/ chapterIndex = NoChapter \/ isProcessing)
    /\ isProcessing' = TRUE
    /\ addHighlightOptimistic(Pending(now, coords, color, chapterIndex))
    /\ isOpen' = FALSE
    /\ cur' = CreateReq(now, coords, color, chapterIndex)
    /\ pc' = "createIssue"
    /\ UNCHANGED <<chapterIndex, mounted, coords, existingHighlightId,
                   requests, now, nextId, fetched, fnVars, scrollVars, pageVars, canvasVars>>

\* await createHighlight(...): the request leaves
CreateIssue ==
    /\ pc = "createIssue"
    /\ requests' = requests (+) SetToBag({cur})
    /\ pc' = "idle"
    /\ cur' = NoReq
    /\ UNCHANGED <<storeVars, menuVars, now, nextId, fetched, fnVars, scrollVars, pageVars, canvasVars>>

\* the request succeeded: addHighlight with the server's id
CreateResolve(r) ==
    /\ pc = "idle"
    /\ BagIn(r, requests) /\ r.kind = "create"
    /\ nextId <= MaxId
    /\ requests' = requests (-) SetToBag({r})
    /\ addHighlight(Confirmed(nextId, r.range, r.style))
    /\ nextId' = nextId + 1
    /\ cur' = [r EXCEPT !.id = nextId]
    /\ pc' = "createAdded"
    /\ UNCHANGED <<chapterIndex, menuVars, now, fetched, fnVars, scrollVars, pageVars, canvasVars>>

\* ... then removePendingHighlight(tempId)
CreateRemovePending ==
    /\ pc = "createAdded"
    /\ removePendingHighlight(cur.tempId)
    /\ pc' = "createFinally"
    /\ UNCHANGED <<chapterIndex, menuVars, requests, cur, now, nextId, fetched, fnVars, scrollVars, pageVars, canvasVars>>

\* the request failed: catch block, removePendingHighlight(tempId)
CreateReject(r) ==
    /\ pc = "idle"
    /\ BagIn(r, requests) /\ r.kind = "create"
    /\ requests' = requests (-) SetToBag({r})
    /\ removePendingHighlight(r.tempId)
    /\ cur' = r
    /\ pc' = "createRolledBack"
    /\ UNCHANGED <<chapterIndex, menuVars, now, nextId, fetched, fnVars, scrollVars, pageVars, canvasVars>>

\* finally { setIsProcessing(false) }
CreateFinally ==
    /\ pc \in {"createFinally", "createRolledBack"}
    /\ isProcessing' = IF cur.own THEN FALSE ELSE isProcessing
    /\ pc' = "idle"
    /\ cur' = NoReq
    /\ UNCHANGED <<storeVars, mounted, isOpen, coords, existingHighlightId,
                   requests, now, nextId, fetched, fnVars, scrollVars, pageVars, canvasVars>>

\* handleDeleteHighlight up to the optimistic removal
HandleDeleteHighlight ==
    /\ pc = "idle"
    /\ DeleteButtonEnabled
    /\ existingHighlightId # NoId
    /\ isProcessing' = TRUE
    /\ removeHighlight(existingHighlightId)
    /\ cur' = DeleteReq(existingHighlightId)
    /\ pc' = "deleteIssue"
    /\ UNCHANGED <<chapterIndex, mounted, isOpen, coords, existingHighlightId,
                   requests, now, nextId, fetched, fnVars, scrollVars, pageVars, canvasVars>>

\* await deleteHighlight(id): the request leaves
DeleteIssue ==
    /\ pc = "deleteIssue"
    /\ requests' = requests (+) SetToBag({cur})
    /\ pc' = "idle"
    /\ cur' = NoReq
    /\ UNCHANGED <<storeVars, menuVars, now, nextId, fetched, fnVars, scrollVars, pageVars, canvasVars>>

DeleteResolve(r) ==
    /\ pc = "idle"
    /\ BagIn(r, requests) /\ r.kind = "delete"
    /\ requests' = requests (-) SetToBag({r})
    /\ cur' = r
    /\ pc' = "deleteDone"
    /\ UNCHANGED <<storeVars, menuVars, now, nextId, fetched, fnVars, scrollVars, pageVars, canvasVars>>

\* catch block: logged, no rollback
DeleteReject(r) ==
    /\ pc = "idle"
    /\ BagIn(r, requests) /\ r.kind = "delete"
    /\ requests' = requests (-) SetToBag({r})
    /\ cur' = r
    /\ pc' = "deleteCatch"
    /\ UNCHANGED <<storeVars, menuVars, now, nextId, fetched, fnVars, scrollVars, pageVars, canvasVars>>

\* finally { setIsProcessing(false) }; setIsOpen(false)
DeleteFinally ==
    /\ pc \in {"deleteDone", "deleteCatch"}
    /\ isProcessing' = IF cur.own THEN FALSE ELSE isProcessing
    /\ isOpen' = IF cur.own THEN FALSE ELSE isOpen
    /\ pc' = "idle"
    /\ cur' = NoReq
    /\ UNCHANGED <<storeVars, mounted, coords, existingHighlightId,
                   requests, now, nextId, fetched, fnVars, scrollVars, pageVars, canvasVars>>

-----------------------------------------------------------------------------
(* ReaderPage *)

\* the chapter query has no data for the requested chapter: the page
\* renders the loading view, which has no SelectionMenu
BeginChapterLoad ==
    /\ pc = "idle"
    /\ mounted
    /\ ChapterIds \ fetched # {}
    /\ mounted' = FALSE
    /\ freshMenu
    /\ requests' = Disown(requests)
    /\ UNCHANGED <<storeVars, pc, cur, now, nextId, fetched, fnVars, scrollVars, pageVars, canvasVars>>

\* effect 8: setChapter(chapterData); setChapterIndex(currentChapterIndex).
\* With a menu on screen the data comes from the query cache.
SyncChapter(c) ==
    /\ pc = "idle"
    /\ c \in ChapterIds
    /\ mounted => c \in fetched
    /\ setChapter(c)
    /\ chapterIndex' = c
    /\ mounted' = TRUE
    /\ fetched' = fetched \cup {c}
    /\ UNCHANGED <<isOpen, coords, isProcessing, existingHighlightId,
                   requests, pc, cur, now, nextId, fnVars, scrollVars, pageVars, canvasVars>>

\* effect 1 of a newly mounted ReaderPage
ResetReader ==
    /\ pc = "idle"
    /\ chapter # NoChapter
    /\ resetReader
    /\ mounted' = FALSE
    /\ freshMenu
    /\ requests' = Disown(requests)
    /\ UNCHANGED <<pc, cur, now, nextId, fetched, fnVars, scrollVars, pageVars, canvasVars>>

-----------------------------------------------------------------------------

\* the highlight service numbers new highlights after the stored ones
FirstId ==
    1 + SetMax({0} \cup UNION {{h.id : h \in SeqToSet(ChapterData[c].highlights)} : c \in ChapterIds})

\* the store after createDefaultState, no SelectionMenu rendered, no request
ReaderIdle ==
    /\ chapter = NoChapter
    /\ chapterIndex = NoChapter
    /\ highlights = <<>>
    /\ highlightMap = EmptyMap
    /\ pendingHighlights = <<>>
    /\ mounted = FALSE
    /\ isOpen = FALSE
    /\ coords = NoCoords
    /\ isProcessing = FALSE
    /\ existingHighlightId = NoId
    /\ requests = EmptyBag
    /\ pc = "idle"
    /\ cur = NoReq
    /\ now = 0
    /\ nextId = FirstId
    /\ fetched = {}

\* the progress query has not settled
ProgressLoading ==
    [status |-> "loading", current_chapter_index |-> NoChapter, progress_percentage |-> 0]

\* ReaderPage not rendered
PageIdle ==
    /\ progressData = ProgressLoading
    /\ currentChapterIndex = NoChapter
    /\ firstLoadedChapter = NoChapter

\* buildHighlightMap not called
FnIdle ==
    /\ call = [highlights |-> <<>>, pending |-> <<>>, segments |-> <<>>]
    /\ ret = <<>>

\* useScrollProgress not mounted
ScrollIdle ==
    /\ initialPercentage = 0
    /\ isChapterSwitch = FALSE
    /\ effects = 0
    /\ isRestoredRef = FALSE
    /\ isProgrammaticScrollRef = FALSE
    /\ lastSavedPercentageRef = [num |-> -1, den |-> 1]
    /\ resizeObserverRef = 0
    /\ resizePending = FALSE
    /\ closures = <<>>
    /\ rafs = <<>>
    /\ timers = <<>>
    /\ scrollTop = 0
    /\ layout = [scrollHeight |-> 800, clientHeight |-> 800]
    /\ resizes = 0
    /\ misses = 0
    /\ scrollEvent = "none"
    /\ saveTimeoutRef = "none"
    /\ progressChange = [called |-> FALSE, safe |-> [num |-> 0, den |-> 1],
                         last |-> [num |-> 0, den |-> 1], by |-> "none"]
    /\ scrolls = 0

\* ContentCanvas not mounted
CanvasIdle ==
    /\ canvasMounted = FALSE
    /\ canvasChapter = 0
    /\ currentSegmentIndex = 0
    /\ rendered = [chapter |-> 0, currentSegmentIndex |-> 0]
    /\ saveProgressTimeoutRef = [chapter |-> -1, currentSegmentIndex |-> -1]
    /\ viewTop = 0
    /\ writes = <<>>
    /\ persisted = [n |-> 0, data |-> [current_chapter_index |-> -1,
                                      current_segment_index |-> -1,
                                      current_segment_offset |-> 0]]
    /\ arrived = 0
    /\ lastFlushed = [n |-> 0, data |-> [current_chapter_index |-> -1,
                                        current_segment_index |-> -1,
                                        current_segment_offset |-> 0]]
    /\ sinceMove = {}

Init == ReaderIdle /\ PageIdle /\ FnIdle /\ ScrollIdle /\ CanvasIdle

Next ==
    \/ \E sel \in Selections(chapter) : HandleMouseUp(sel)
    \/ HandleMouseUpCollapsed
    \/ CloseMenu
    \/ \E color \in Colors : HandleHighlight(color)
    \/ CreateIssue
    \/ \E r \in BagToSet(requests) : CreateResolve(r)
    \/ CreateRemovePending
    \/ \E r \in BagToSet(requests) : CreateReject(r)
    \/ CreateFinally
    \/ HandleDeleteHighlight
    \/ DeleteIssue
    \/ \E r \in BagToSet(requests) : DeleteResolve(r)
    \/ \E r \in BagToSet(requests) : DeleteReject(r)
    \/ DeleteFinally
    \/ BeginChapterLoad
    \/ \E c \in ChapterIds : SyncChapter(c)
    \/ ResetReader

vars == <<storeVars, menuVars, asyncVars, fnVars, scrollVars, pageVars, canvasVars>>

Spec == Init /\ [][Next]_vars

-----------------------------------------------------------------------------
(* The store on its own: its operations in any order, with any arguments *)

MaxList == 2        \* longest confirmed or pending list the operations build

StoreRanges == {Range(0, 3, 1, 2), Range(0, 0, 2, 1)}
StoreHighlights == {Confirmed(id, r, "yellow") : id \in 1..2, r \in StoreRanges}
StorePendings == {Pending(t, r, "green", 0) : t \in 1..2, r \in StoreRanges}

StoreSetChapter(c) ==
    /\ setChapter(c)
    /\ UNCHANGED <<chapterIndex, menuVars, asyncVars, fnVars, scrollVars, pageVars, canvasVars>>

StoreSetHighlights(hs) ==
    /\ setHighlights(hs)
    /\ UNCHANGED <<chapterIndex, menuVars, asyncVars, fnVars, scrollVars, pageVars, canvasVars>>

StoreAddHighlight(h) ==
    /\ Len(highlights) < MaxList
    /\ addHighlight(h)
    /\ UNCHANGED <<chapterIndex, menuVars, asyncVars, fnVars, scrollVars, pageVars, canvasVars>>

StoreAddHighlightOptimistic(h) ==
    /\ Len(pendingHighlights) < MaxList
    /\ addHighlightOptimistic(h)
    /\ UNCHANGED <<chapterIndex, menuVars, asyncVars, fnVars, scrollVars, pageVars, canvasVars>>

StoreRemoveHighlight(id) ==
    /\ removeHighlight(id)
    /\ UNCHANGED <<chapterIndex, menuVars, asyncVars, fnVars, scrollVars, pageVars, canvasVars>>

StoreRemovePendingHighlight(tempId) ==
    /\ removePendingHighlight(tempId)
    /\ UNCHANGED <<chapterIndex, menuVars, asyncVars, fnVars, scrollVars, pageVars, canvasVars>>

StoreResetReader ==
    /\ resetReader
    /\ UNCHANGED <<menuVars, asyncVars, fnVars, scrollVars, pageVars, canvasVars>>

NextStore ==
    \/ \E c \in ChapterIds \cup {NoChapter} : StoreSetChapter(c)
    \/ \E h \in StoreHighlights : StoreSetHighlights(<<h>>)
    \/ StoreSetHighlights(<<>>)
    \/ \E h \in StoreHighlights : StoreAddHighlight(h)
    \/ \E h \in StorePendings : StoreAddHighlightOptimistic(h)
    \/ \E id \in 1..2 : StoreRemoveHighlight(id)
    \/ \E t \in 1..2 : StoreRemovePendingHighlight(t)
    \/ StoreResetReader

SpecStore == Init /\ [][NextStore]_vars

-----------------------------------------------------------------------------
(* buildHighlightMap on its own *)

BuildRanges ==
    {Range(0, 3, 1, 2), Range(1, 1, 1, 3), Range(0, 1, 2, 0), Range(0, 4, 0, 7)}

BuildSegments ==
    {<<>>, <<Text(5), Text(5), Text(5)>>, <<Text(2), Image, Text(2)>>}

RECURSIVE SeqsUpTo(_, _)
SeqsUpTo(S, n) ==
    IF n = 0 THEN {<<>>}
    ELSE LET shorter == SeqsUpTo(S, n - 1)
         IN shorter \cup {Append(q, x) : q \in shorter, x \in S}

BuildInputs ==
    [highlights : SeqsUpTo({Confirmed(1, r, c) : r \in BuildRanges, c \in Colors}, MaxRanges),
     pending    : SeqsUpTo({Pending(1, r, "blue", 0) : r \in BuildRanges}
                               \cup {Pending(1, Range(1, 1, 1, 3), "yellow", 0)}, MaxRanges),
     segments   : BuildSegments]

InitBuild ==
    /\ ReaderIdle
    /\ PageIdle
    /\ CanvasIdle
    /\ ScrollIdle
    /\ call \in BuildInputs
    /\ ret = <<>>

\* ret = <<m>> once buildHighlightMap has returned m
BuildCall ==
    /\ ret = <<>>
    /\ ret' = <<buildHighlightMap(call.highlights, call.pending, call.segments)>>
    /\ UNCHANGED <<storeVars, menuVars, asyncVars, call, scrollVars, pageVars, canvasVars>>

NextBuild == BuildCall

SpecBuild == InitBuild /\ [][NextBuild]_vars

-----------------------------------------------------------------------------
(* useScrollProgress: the effect that restores the reading position *)

MaxEffects == 2         \* runs of the restore effect
MaxMisses == 2          \* scroll commands the browser has not carried out a frame later
MaxResizes == 1         \* changes of the content height
MaxScrolls == 2         \* scrolls of the reader

MAX_RESTORE_ATTEMPTS == 50

RECURSIVE GCD(_, _)
GCD(a, b) == IF b = 0 THEN a ELSE GCD(b, a % b)

\* the number n/d (d > 0), in lowest terms so that equal numbers are equal values
Frac(n, d) ==
    LET g == GCD(IF n < 0 THEN -n ELSE n, d)
    IN  [num |-> n \div g, den |-> d \div g]

\* initialPercentage in hundredths: 0, 0.42 and 0.8
InitialPercentages == {0, 42, 80}

\* scrollHeight and clientHeight of the scroll container: content that fits
\* the viewport, and the two heights of the chapter whose image loads
\* (maxScrollTop 2000 and 3200)
Layouts ==
    {[scrollHeight |-> 800, clientHeight |-> 800],
     [scrollHeight |-> 2800, clientHeight |-> 800],
     [scrollHeight |-> 4000, clientHeight |-> 800]}

MaxScrollTop(l) == l.scrollHeight - l.clientHeight

NoObserver == 0     \* resizeObserverRef holds no observer that is observing

Abs(x) == IF x < 0 THEN -x ELSE x

\* the closure of one run of the effect: p and restoreAttempts
Closure(p) == [p |-> p, restoreAttempts |-> 0]

\* the callback handed to requestAnimationFrame inside tryRestore, with the
\* target and maxScrollTop it has captured
Check(g, target, maxScrollTop) ==
    [kind |-> "check", gen |-> g, target |-> target, maxScrollTop |-> maxScrollTop]

\* requestAnimationFrame(tryRestore)
Retry(g) == [kind |-> "retry", gen |-> g, target |-> 0, maxScrollTop |-> 0]

\* what the code of the hook reads and writes, as one value
HookState ==
    [isRestoredRef |-> isRestoredRef,
     isProgrammaticScrollRef |-> isProgrammaticScrollRef,
     lastSavedPercentageRef |-> lastSavedPercentageRef,
     resizeObserverRef |-> resizeObserverRef,
     resizePending |-> resizePending,
     closures |-> closures,
     rafs |-> rafs,
     scrollTop |-> scrollTop,
     misses |-> misses,
     scrollEvent |-> scrollEvent,
     saveTimeoutRef |-> saveTimeoutRef]

Commit(S) ==
    /\ isRestoredRef' = S.isRestoredRef
    /\ isProgrammaticScrollRef' = S.isProgrammaticScrollRef
    /\ lastSavedPercentageRef' = S.lastSavedPercentageRef
    /\ resizeObserverRef' = S.resizeObserverRef
    /\ resizePending' = S.resizePending
    /\ closures' = S.closures
    /\ rafs' = S.rafs
    /\ scrollTop' = S.scrollTop
    /\ misses' = S.misses
    /\ scrollEvent' = S.scrollEvent
    /\ saveTimeoutRef' = S.saveTimeoutRef

\* no scroll event waits, no debounced save is pending
NoEvent == "none"
NoTimer == "none"

\* the offset has moved: the container is due a scroll event at the next
\* frame.  Moves before that frame share one event; the event counts as the
\* hook's own only if nothing else has moved the offset
moved(S, by) ==
    [S EXCEPT !.scrollEvent = IF @ = "other" THEN "other" ELSE by]

\* container.scrollTop = target: the browser moves the offset at once, or
\* (smooth scrolling) has not moved it a frame later
assignScrollTop(S, target) ==
    {IF S.scrollTop = target THEN S ELSE moved([S EXCEPT !.scrollTop = target], "restore")} \cup
    (IF S.scrollTop # target /\ S.misses < MaxMisses
     THEN {[S EXCEPT !.misses = @ + 1]}
     ELSE {})

\* resizeObserverRef.current?.disconnect()
disconnect(S) == [S EXCEPT !.resizeObserverRef = NoObserver, !.resizePending = FALSE]

\* tryRestore without its first line
tryRestore_Unguarded(S, g) ==
    LET maxScrollTop == MaxScrollTop(layout)
        attempts == S.closures[g].restoreAttempts
        target == (S.closures[g].p * maxScrollTop) \div 100
    IN  IF maxScrollTop <= 0
        THEN {[S EXCEPT !.isRestoredRef = (attempts > 5),
                        !.lastSavedPercentageRef = IF attempts > 5 THEN Frac(0, 1) ELSE @,
                        !.closures[g].restoreAttempts = @ + 1]}
        ELSE {[T EXCEPT !.isProgrammaticScrollRef = TRUE,
                        !.rafs = Append(@, Check(g, target, maxScrollTop))] :
                 T \in assignScrollTop(S, target)}

\* tryRestore of effect run g
tryRestore(S, g) ==
    LET maxScrollTop == MaxScrollTop(layout)
        attempts == S.closures[g].restoreAttempts
        target == (S.closures[g].p * maxScrollTop) \div 100
    IN  IF S.isRestoredRef THEN {S}
        ELSE IF maxScrollTop <= 0
        THEN {[S EXCEPT !.isRestoredRef = (attempts > 5),
                        !.lastSavedPercentageRef = IF attempts > 5 THEN Frac(0, 1) ELSE @,
                        !.closures[g].restoreAttempts = @ + 1]}
        ELSE {[T EXCEPT !.isProgrammaticScrollRef = TRUE,
                        !.rafs = Append(@, Check(g, target, maxScrollTop))] :
                 T \in assignScrollTop(S, target)}

\* afterScroll with the cap tested after one more attempt
afterScroll_CapAfter(S, f) ==
    LET threshold100 == Max(5 * 100, f.maxScrollTop)
        diff == Abs(S.scrollTop - f.target)
        attempts == S.closures[f.gen].restoreAttempts
        T == [S EXCEPT !.isProgrammaticScrollRef = FALSE]
    IN  IF diff * 100 < threshold100
        THEN disconnect([T EXCEPT !.isRestoredRef = TRUE,
                                  !.lastSavedPercentageRef = Frac(S.closures[f.gen].p, 100)])
        ELSE IF attempts > MAX_RESTORE_ATTEMPTS
        THEN disconnect([T EXCEPT !.isRestoredRef = TRUE,
                                  !.lastSavedPercentageRef = Frac(S.scrollTop, f.maxScrollTop)])
        ELSE [T EXCEPT !.closures[f.gen].restoreAttempts = @ + 1,
                       !.rafs = Append(@, Retry(f.gen))]

\* the callback tryRestore hands to requestAnimationFrame: measure and decide
afterScroll(S, f) ==
    LET threshold100 == Max(5 * 100, f.maxScrollTop)    \* 100 * Math.max(5, maxScrollTop * 0.01)
        diff == Abs(S.scrollTop - f.target)
        attempts == S.closures[f.gen].restoreAttempts
        T == [S EXCEPT !.isProgrammaticScrollRef = FALSE]
    IN  IF diff * 100 < threshold100
        THEN disconnect([T EXCEPT !.isRestoredRef = TRUE,
                                  !.lastSavedPercentageRef = Frac(S.closures[f.gen].p, 100)])
        ELSE IF attempts >= MAX_RESTORE_ATTEMPTS
        THEN disconnect([T EXCEPT !.isRestoredRef = TRUE,
                                  !.lastSavedPercentageRef = Frac(S.scrollTop, f.maxScrollTop)])
        ELSE [T EXCEPT !.closures[f.gen].restoreAttempts = @ + 1,
                       !.rafs = Append(@, Retry(f.gen))]

\* the effect: the cleanup of the previous run, then the body
restoreEffect(S, percentage, switch) ==
    LET p == Max(0, Min(100, percentage))
        g == Len(S.closures) + 1
        clean == disconnect(S)
    IN  IF switch THEN {[clean EXCEPT !.isRestoredRef = TRUE]}
        ELSE IF p <= 0
        THEN {[T EXCEPT !.isRestoredRef = TRUE, !.lastSavedPercentageRef = Frac(0, 1)] :
                 T \in assignScrollTop(clean, 0)}
        ELSE \* a new observer is delivered the size of its target once
             tryRestore([clean EXCEPT !.isRestoredRef = FALSE,
                                      !.closures = Append(@, Closure(p)),
                                      !.resizeObserverRef = g,
                                      !.resizePending = TRUE], g)

\* the first run of the effect, when the hook mounts
MountEffect ==
    /\ effects = 0
    /\ effects' = 1
    /\ \E S \in restoreEffect(HookState, initialPercentage, isChapterSwitch) : Commit(S)
    /\ UNCHANGED <<readerVars, initialPercentage, isChapterSwitch, layout, timers, resizes,
                   progressChange, scrolls>>

\* a render with another initialPercentage or isChapterSwitch
RerunEffect(percentage, switch) ==
    /\ effects > 0
    /\ effects' = effects + 1
    /\ <<percentage, switch>> # <<initialPercentage, isChapterSwitch>>
    /\ effects < MaxEffects
    /\ initialPercentage' = percentage
    /\ isChapterSwitch' = switch
    /\ \E S \in restoreEffect(HookState, percentage, switch) : Commit(S)
    /\ UNCHANGED <<readerVars, layout, timers, resizes, progressChange, scrolls>>

\* the callback of the ResizeObserver: restoreAttempts = 0, and setTimeout
\* (the timer itself is added by the frame that delivers the notification)
ResizeObserverCallback(S) ==
    [S EXCEPT !.resizePending = FALSE,
              !.closures[S.resizeObserverRef].restoreAttempts = 0]

\* a connected observer has a size to report
resizeDue(S) == S.resizePending /\ S.resizeObserverRef # NoObserver

\* setTimeout(tryRestore, restoreDelay) comes due
TimeoutTryRestore ==
    /\ timers # <<>>
    /\ timers' = Tail(timers)
    /\ \E S \in tryRestore(HookState, Head(timers)) : Commit(S)
    /\ UNCHANGED <<readerVars, initialPercentage, isChapterSwitch, effects,
                   layout, resizes, progressChange, scrolls>>

runCallback(S, f) ==
    IF f.kind = "check" THEN {afterScroll(S, f)} ELSE tryRestore(S, f.gen)

RECURSIVE runCallbacks(_, _)
runCallbacks(S, queue) ==
    IF queue = <<>> THEN {S}
    ELSE UNION {runCallbacks(T, Tail(queue)) : T \in runCallback(S, Head(queue))}

\* handleScroll, the listener of the container's scroll event
handleScroll(S, by) ==
    IF ~S.isRestoredRef THEN S
    ELSE IF S.isProgrammaticScrollRef THEN S
    ELSE [S EXCEPT !.saveTimeoutRef = by]      \* clearTimeout, then setTimeout

\* the scroll event that is due is dispatched to handleScroll
dispatchScroll(S) ==
    IF S.scrollEvent = NoEvent THEN S
    ELSE handleScroll([S EXCEPT !.scrollEvent = NoEvent], S.scrollEvent)

\* a frame: the browser dispatches the scroll event that is due, then runs
\* the animation-frame callbacks requested before the frame, in the order of
\* the requests (what they request runs in the next frame), then delivers
\* the size to an observer that is still connected
AnimationFrame ==
    /\ rafs # <<>> \/ scrollEvent # NoEvent \/ resizeDue(HookState)
    /\ \E S \in runCallbacks([dispatchScroll(HookState) EXCEPT !.rafs = <<>>], rafs) :
           IF resizeDue(S)
           THEN /\ Commit(ResizeObserverCallback(S))
                /\ timers' = Append(timers, S.resizeObserverRef)
           ELSE /\ Commit(S)
                /\ timers' = timers
    /\ UNCHANGED <<readerVars, initialPercentage, isChapterSwitch, effects,
                   layout, resizes, progressChange, scrolls>>

\* |a - b| > 0.001 for fractions with positive denominators
FarApart(a, b) == Abs(a.num * b.den - b.num * a.den) * 1000 > a.den * b.den

\* the debounced save set by handleScroll comes due
SaveTimeout ==
    LET maxScrollTop == MaxScrollTop(layout)
        safe == Frac(Max(0, Min(maxScrollTop, scrollTop)), maxScrollTop)
        by == IF scrollEvent = "other" THEN "other" ELSE saveTimeoutRef
    IN  /\ saveTimeoutRef # NoTimer
        /\ saveTimeoutRef' = NoTimer
        /\ IF maxScrollTop > 0 /\ FarApart(safe, lastSavedPercentageRef)
           THEN /\ lastSavedPercentageRef' = safe
                /\ progressChange' = [called |-> TRUE, safe |-> safe,
                                      last |-> lastSavedPercentageRef, by |-> by]
           ELSE UNCHANGED <<lastSavedPercentageRef, progressChange>>
        /\ UNCHANGED <<readerVars, initialPercentage, isChapterSwitch, effects,
                       isRestoredRef, isProgrammaticScrollRef, resizeObserverRef,
                       resizePending, closures, rafs, timers, scrollTop, layout,
                       resizes, misses, scrollEvent, scrolls>>

\* offsets the reader scrolls to
UserOffsets == {0, 500}

\* the reader scrolls the container
UserScroll(y) ==
    /\ effects > 0
    /\ scrolls < MaxScrolls
    /\ scrolls' = scrolls + 1
    /\ y # scrollTop
    /\ y <= MaxScrollTop(layout)
    /\ Commit(moved([HookState EXCEPT !.scrollTop = y], "other"))
    /\ UNCHANGED <<readerVars, initialPercentage, isChapterSwitch, effects,
                   timers, layout, resizes, progressChange>>

\* the content changes its height (an image loads, the font changes); the
\* browser clamps the offset and notifies a connected observer
Resize(l) ==
    LET clamped == Min(scrollTop, Max(0, MaxScrollTop(l)))
    IN  /\ resizes < MaxResizes
        /\ l # layout
        /\ resizes' = resizes + 1
        /\ layout' = l
        /\ scrollTop' = clamped
        /\ scrollEvent' = IF clamped # scrollTop THEN "other" ELSE scrollEvent
        /\ resizePending' = (resizePending \/ resizeObserverRef # NoObserver)
        /\ UNCHANGED <<readerVars, initialPercentage, isChapterSwitch, effects,
                       isRestoredRef, isProgrammaticScrollRef, lastSavedPercentageRef,
                       resizeObserverRef, closures, rafs, timers, misses,
                       saveTimeoutRef, progressChange, scrolls>>

InitRestore ==
    /\ ReaderIdle
    /\ PageIdle
    /\ CanvasIdle
    /\ FnIdle
    /\ initialPercentage \in InitialPercentages
    /\ isChapterSwitch \in BOOLEAN
    /\ effects = 0
    /\ isRestoredRef = isChapterSwitch
    /\ isProgrammaticScrollRef = FALSE
    /\ lastSavedPercentageRef = Frac(-1, 1)
    /\ resizeObserverRef = NoObserver
    /\ resizePending = FALSE
    /\ closures = <<>>
    /\ rafs = <<>>
    /\ timers = <<>>
    /\ scrollTop = 0
    /\ layout \in Layouts
    /\ resizes = 0
    /\ misses = 0
    /\ scrollEvent = NoEvent
    /\ saveTimeoutRef = NoTimer
    /\ progressChange = [called |-> FALSE, safe |-> Frac(0, 1), last |-> Frac(0, 1),
                         by |-> "none"]
    /\ scrolls = 0

NextRestore ==
    \/ MountEffect
    \/ \E percentage \in InitialPercentages, switch \in BOOLEAN :
           RerunEffect(percentage, switch)
    \/ TimeoutTryRestore
    \/ AnimationFrame
    \/ SaveTimeout
    \/ \E y \in UserOffsets :
           UserScroll(y)
    \/ \E l \in Layouts :
           Resize(l)

SpecRestore == InitRestore /\ [][NextRestore]_vars

-----------------------------------------------------------------------------
(* One restoration whose scroll commands keep missing their target *)

\* layouts whose content scrolls
ScrollableLayouts == {l \in Layouts : MaxScrollTop(l) > 0}

\* one restoration to 42 % in content of constant height.  The count of
\* missed commands starts MAX_RESTORE_ATTEMPTS + 2 below MaxMisses, so that
\* the browser can miss every command of the restoration
InitAttempts ==
    /\ ReaderIdle
    /\ PageIdle
    /\ CanvasIdle
    /\ FnIdle
    /\ initialPercentage \in InitialPercentages \ {0}
    /\ isChapterSwitch = FALSE
    /\ effects = 0
    /\ isRestoredRef = FALSE
    /\ isProgrammaticScrollRef = FALSE
    /\ lastSavedPercentageRef = Frac(-1, 1)
    /\ resizeObserverRef = NoObserver
    /\ resizePending = FALSE
    /\ closures = <<>>
    /\ rafs = <<>>
    /\ timers = <<>>
    /\ scrollTop = 0
    /\ layout \in ScrollableLayouts
    /\ resizes = 0
    /\ misses = MaxMisses - (MAX_RESTORE_ATTEMPTS + 2)
    /\ scrollEvent = NoEvent
    /\ saveTimeoutRef = NoTimer
    /\ progressChange = [called |-> FALSE, safe |-> Frac(0, 1), last |-> Frac(0, 1),
                         by |-> "none"]
    /\ scrolls = 0

NextAttempts ==
    \/ MountEffect
    \/ TimeoutTryRestore
    \/ AnimationFrame

SpecAttempts == InitAttempts /\ [][NextAttempts]_vars

-----------------------------------------------------------------------------
(* The restore effect and its callbacks, without the reader's scrolling *)

\* commands the browser may miss here: enough for restoreAttempts to pass
\* the 5 of tryRestore's branch for content that does not scroll
SlowFrames == MaxMisses + 5

\* the hook mounts with a stored fraction of 42 % in content that scrolls;
\* the fraction then changes to 80 %, or the chapter is switched, and the
\* content changes its height
InitTerminal ==
    /\ ReaderIdle
    /\ PageIdle
    /\ CanvasIdle
    /\ FnIdle
    /\ initialPercentage = 42
    /\ isChapterSwitch = FALSE
    /\ effects = 0
    /\ isRestoredRef = FALSE
    /\ isProgrammaticScrollRef = FALSE
    /\ lastSavedPercentageRef = Frac(-1, 1)
    /\ resizeObserverRef = NoObserver
    /\ resizePending = FALSE
    /\ closures = <<>>
    /\ rafs = <<>>
    /\ timers = <<>>
    /\ scrollTop = 0
    /\ layout = [scrollHeight |-> 2800, clientHeight |-> 800]
    /\ resizes = 0
    /\ misses = MaxMisses - SlowFrames
    /\ scrollEvent = NoEvent
    /\ saveTimeoutRef = NoTimer
    /\ progressChange = [called |-> FALSE, safe |-> Frac(0, 1), last |-> Frac(0, 1),
                         by |-> "none"]
    /\ scrolls = 0

NextTerminal ==
    \/ MountEffect
    \/ \E switch \in BOOLEAN :
           RerunEffect(80, switch)
    \/ TimeoutTryRestore
    \/ AnimationFrame
    \/ \E l \in Layouts :
           Resize(l)

SpecTerminal == InitTerminal /\ [][NextTerminal]_vars

-----------------------------------------------------------------------------
(* ReaderPage: the options it hands to the restore effect *)

\* indices of the chapters in the table of contents
chapterList == <<0, 1, 2>>

\* the progress query has settled without data
ProgressUndefined ==
    [status |-> "undefined", current_chapter_index |-> NoChapter, progress_percentage |-> 0]

\* what the backend may hold: a chapter of the book or one that is not in
\* the table of contents, at the top of the chapter or 42 % into it
StoredProgress ==
    {[status |-> "success", current_chapter_index |-> c, progress_percentage |-> p] :
        c \in {1, 7}, p \in {0, 42}}

HasData(pd) == pd.status = "success"

InToc(c) == \E i \in DOMAIN chapterList : chapterList[i] = c

\* findIndex
TocPosition(c) == CHOOSE i \in DOMAIN chapterList : chapterList[i] = c

\* targetChapterIndex once the table of contents is loaded
targetChapterIndexOf(pd) ==
    IF HasData(pd) /\ InToc(pd.current_chapter_index)
    THEN pd.current_chapter_index
    ELSE chapterList[1]

\* initialPercentage, in hundredths
initialPercentageOf(pd) ==
    IF ~HasData(pd) THEN 0
    ELSE IF pd.current_chapter_index = targetChapterIndexOf(pd)
    THEN pd.progress_percentage
    ELSE 0

isChapterSwitchOf(first, current) ==
    IF first = NoChapter THEN FALSE
    ELSE current # NoChapter /\ current # first

\* none of the loading screens is returned: the scroll container and
\* ContentCanvas are rendered
Shown(pd, current, cache) == pd # ProgressLoading /\ current # NoChapter /\ current \in cache

\* a new instance of the hook in a new scroll container
mountHook(S, switch) ==
    [S EXCEPT !.isRestoredRef = switch,
              !.isProgrammaticScrollRef = FALSE,
              !.lastSavedPercentageRef = Frac(-1, 1),
              !.resizeObserverRef = NoObserver,
              !.resizePending = FALSE,
              !.rafs = <<>>,
              !.scrollTop = 0,
              !.scrollEvent = NoEvent,
              !.saveTimeoutRef = NoTimer]

\* the render that follows a change of ReaderPage's state or of its
\* queries, with the effects it runs: effect 8 records the first chapter
\* whose data is there, and the restore effect runs when the view mounts or
\* one of its options has changed
Rendered(pd, current, cache) ==
    LET first == IF current # NoChapter /\ current \in cache /\ firstLoadedChapter = NoChapter
                 THEN current
                 ELSE firstLoadedChapter
        percentage == initialPercentageOf(pd)
        switch == isChapterSwitchOf(first, current)
        was == Shown(progressData, currentChapterIndex, fetched)
        is == Shown(pd, current, cache)
    IN  /\ progressData' = pd
        /\ currentChapterIndex' = current
        /\ fetched' = cache
        /\ firstLoadedChapter' = first
        /\ initialPercentage' = percentage
        /\ isChapterSwitch' = switch
        /\ IF is /\ ~was
           THEN /\ effects' = effects + 1
                /\ timers' = <<>>
                /\ \E S \in restoreEffect(mountHook(HookState, switch), percentage, switch) :
                       Commit(S)
           ELSE IF is /\ <<percentage, switch>> # <<initialPercentage, isChapterSwitch>>
           THEN /\ effects' = effects + 1
                /\ timers' = timers
                /\ \E S \in restoreEffect(HookState, percentage, switch) : Commit(S)
           ELSE IF was /\ ~is
           THEN /\ effects' = effects
                /\ timers' = <<>>
                /\ Commit(mountHook(HookState, FALSE))
           ELSE /\ effects' = effects
                /\ timers' = timers
                /\ Commit(HookState)
        /\ UNCHANGED <<storeVars, menuVars, requests, pc, cur, now, nextId, fnVars,
                       canvasVars, layout, resizes, progressChange, scrolls>>

\* the table of contents arrives: setCurrentChapterIndex(targetChapterIndex)
TocLoaded ==
    /\ currentChapterIndex = NoChapter
    /\ Rendered(progressData, targetChapterIndexOf(progressData), fetched)

\* the progress query settles; targetChapterIndex may change
ProgressLoaded(pd) ==
    /\ progressData = ProgressLoading
    /\ Rendered(pd,
                IF currentChapterIndex = NoChapter THEN NoChapter
                ELSE IF targetChapterIndexOf(pd) # targetChapterIndexOf(progressData)
                THEN targetChapterIndexOf(pd)
                ELSE currentChapterIndex,
                fetched)

\* the chapter query of currentChapterIndex delivers its data
ChapterFetched ==
    /\ currentChapterIndex # NoChapter
    /\ currentChapterIndex \notin fetched
    /\ Rendered(progressData, currentChapterIndex, fetched \cup {currentChapterIndex})

\* the reader can use the navigation, and the model lets them
CanNavigate ==
    /\ Shown(progressData, currentChapterIndex, fetched)
    /\ effects <= MaxEffects

handlePrevChapter ==
    /\ CanNavigate
    /\ TocPosition(currentChapterIndex) > 1
    /\ Rendered(progressData, chapterList[TocPosition(currentChapterIndex) - 1], fetched)

handleNextChapter ==
    /\ CanNavigate
    /\ TocPosition(currentChapterIndex) < Len(chapterList)
    /\ Rendered(progressData, chapterList[TocPosition(currentChapterIndex) + 1], fetched)

handleChapterSelect(index) ==
    /\ CanNavigate
    /\ index # currentChapterIndex
    /\ Rendered(progressData, index, fetched)

InitNavigate ==
    /\ ReaderIdle
    /\ PageIdle
    /\ CanvasIdle
    /\ FnIdle
    /\ initialPercentage = 0
    /\ isChapterSwitch = FALSE
    /\ effects = 0
    /\ isRestoredRef = FALSE
    /\ isProgrammaticScrollRef = FALSE
    /\ lastSavedPercentageRef = Frac(-1, 1)
    /\ resizeObserverRef = NoObserver
    /\ resizePending = FALSE
    /\ closures = <<>>
    /\ rafs = <<>>
    /\ timers = <<>>
    /\ scrollTop = 0
    /\ layout \in Layouts
    /\ resizes = 0
    /\ misses = 0
    /\ scrollEvent = NoEvent
    /\ saveTimeoutRef = NoTimer
    /\ progressChange = [called |-> FALSE, safe |-> Frac(0, 1), last |-> Frac(0, 1),
                         by |-> "none"]
    /\ scrolls = 0

NextNavigate ==
    \/ TocLoaded
    \/ \E pd \in StoredProgress \cup {ProgressUndefined} :
           ProgressLoaded(pd)
    \/ ChapterFetched
    \/ handlePrevChapter
    \/ handleNextChapter
    \/ \E i \in DOMAIN chapterList :
           handleChapterSelect(chapterList[i])
    \/ TimeoutTryRestore
    \/ AnimationFrame
    \/ SaveTimeout
    \/ \E y \in UserOffsets :
           UserScroll(y)

SpecNavigate == InitNavigate /\ [][NextNavigate]_vars

-----------------------------------------------------------------------------
(* ContentCanvas: saving the reading position *)

MaxWrites == 2          \* updateReadingProgress requests issued

CanvasChapters == {0, 1}
\* currentSegmentIndex of the store when ContentCanvas mounts
InitialSegments == {0, 2}

\* viewport positions: a segment is half a viewport high
ViewTops == 0..1

\* the segment the IntersectionObserver reports: the one at the centre of the
\* viewport
CentreSegment(v) == v + 1

\* Math.round(offsetRatio * 10000) for the segment's element:
\* rect.top / window.innerHeight limited to 0..1
SegmentOffset(idx, v) == Max(0, Min(10000, 5000 * (idx - v)))

\* the payload of updateReadingProgress as the render cl computes it
ProgressUpdate(cl, v) ==
    [current_chapter_index |-> cl.chapter,
     current_segment_index |-> cl.currentSegmentIndex,
     current_segment_offset |-> SegmentOffset(cl.currentSegmentIndex, v)]

NoNavigation == -1

\* saveProgressTimeoutRef with no timer pending
NoFlushTimer == [chapter |-> NoChapter, currentSegmentIndex |-> -1]

\* no progress stored yet
NoProgress ==
    [current_chapter_index |-> NoChapter, current_segment_index |-> -1,
     current_segment_offset |-> 0]

\* updateReadingProgress(bookId, data) is sent; then is the chapter that
\* handlePrevChapter or handleNextChapter moves to once the request settles
updateReadingProgress(data, then) ==
    /\ lastFlushed.n < MaxWrites
    /\ lastFlushed' = [n |-> lastFlushed.n + 1, data |-> data]
    /\ writes' = Append(writes, [n |-> lastFlushed.n + 1, data |-> data, then |-> then])
    /\ sinceMove' = sinceMove \cup {data}

\* flushProgress of the render cl
flushProgress(cl, then) ==
    /\ saveProgressTimeoutRef' = NoFlushTimer
    /\ IF cl.chapter # NoChapter /\ cl.currentSegmentIndex >= 0
       THEN updateReadingProgress(ProgressUpdate(cl, viewTop), then)
       ELSE UNCHANGED <<lastFlushed, writes, sinceMove>>

\* the reader scrolls the page
CanvasScroll(v) ==
    /\ canvasMounted
    /\ v # viewTop
    /\ viewTop' = v
    /\ sinceMove' = {}
    /\ UNCHANGED <<storeVars, menuVars, asyncVars, fnVars, scrollVars, pageVars,
                   canvasMounted, canvasChapter, currentSegmentIndex, rendered,
                   saveProgressTimeoutRef, writes, persisted, arrived, lastFlushed>>

\* the IntersectionObserver callback, and updateCurrentSegment(idx): the
\* timer calls the flushProgress of the render that created it
IntersectionCallback ==
    LET idx == CentreSegment(viewTop)
    IN  /\ canvasMounted
        /\ rendered = [chapter |-> canvasChapter, currentSegmentIndex |-> currentSegmentIndex]
        /\ idx # rendered.currentSegmentIndex
        /\ currentSegmentIndex' = idx
        /\ saveProgressTimeoutRef' = rendered
        /\ sinceMove' = {}
        /\ UNCHANGED <<storeVars, menuVars, asyncVars, fnVars, scrollVars, pageVars,
                       canvasMounted, canvasChapter, rendered, viewTop, writes,
                       persisted, arrived, lastFlushed>>

\* setTimeout(() => flushProgress(), 1000) comes due
DebouncedFlush ==
    /\ canvasMounted
    /\ saveProgressTimeoutRef # NoFlushTimer
    /\ flushProgress(saveProgressTimeoutRef, NoNavigation)
    /\ UNCHANGED <<storeVars, menuVars, asyncVars, fnVars, scrollVars, pageVars,
                   canvasMounted, canvasChapter, currentSegmentIndex, rendered,
                   viewTop, persisted, arrived>>

\* the store has changed: ContentCanvas renders again, and the effects that
\* depend on chapter or currentSegmentIndex run their cleanups with the
\* values of the previous render.  The observer effect clears the timer, the
\* save effect writes the progress
CanvasRender ==
    /\ canvasMounted
    /\ rendered # [chapter |-> canvasChapter, currentSegmentIndex |-> currentSegmentIndex]
    /\ rendered' = [chapter |-> canvasChapter, currentSegmentIndex |-> currentSegmentIndex]
    /\ saveProgressTimeoutRef' = NoFlushTimer
    /\ updateReadingProgress(ProgressUpdate(rendered, viewTop), NoNavigation)
    /\ UNCHANGED <<storeVars, menuVars, asyncVars, fnVars, scrollVars, pageVars,
                   canvasMounted, canvasChapter, currentSegmentIndex, viewTop,
                   persisted, arrived>>

\* handlePrevChapter and handleNextChapter: flush, then navigate
HandleChapterButton(c) ==
    /\ canvasMounted
    /\ c # rendered.chapter
    /\ flushProgress(rendered, c)
    /\ UNCHANGED <<storeVars, menuVars, asyncVars, fnVars, scrollVars, pageVars,
                   canvasMounted, canvasChapter, currentSegmentIndex, rendered,
                   viewTop, persisted, arrived>>

\* a request settles, whatever the order in which the requests were sent;
\* the backend stores the payload of a request that succeeds.  then() of
\* flushProgress runs after success and after failure: ReaderPage loads the
\* chapter and sets the store
ProgressSettles(i, ok) ==
    /\ i \in DOMAIN writes
    /\ writes' = SubSeq(writes, 1, i - 1) \o SubSeq(writes, i + 1, Len(writes))
    /\ IF ok
       THEN /\ persisted' = [n |-> writes[i].n, data |-> writes[i].data]
            /\ arrived' = Max(arrived, writes[i].n)
       ELSE UNCHANGED <<persisted, arrived>>
    /\ IF writes[i].then # NoNavigation /\ canvasMounted /\ writes[i].then # canvasChapter
       THEN /\ canvasChapter' = writes[i].then
            /\ currentSegmentIndex' = 0
            /\ viewTop' = 0
            /\ sinceMove' = {}
       ELSE UNCHANGED <<canvasChapter, currentSegmentIndex, viewTop, sinceMove>>
    /\ UNCHANGED <<storeVars, menuVars, asyncVars, fnVars, scrollVars, pageVars,
                   canvasMounted, rendered, saveProgressTimeoutRef, lastFlushed>>

\* the payload the cleanup of the save effect computes when the view is torn
\* down.  The cleanup of a passive effect runs before or after the elements
\* leave the document, depending on the React version; getBoundingClientRect
\* of an element outside the document returns top = 0
TeardownUpdates(cl, v) ==
    {ProgressUpdate(cl, v), [ProgressUpdate(cl, v) EXCEPT !.current_segment_offset = 0]}

\* ContentCanvas unmounts: the cleanups of the last render
CanvasUnmount ==
    /\ canvasMounted
    /\ canvasMounted' = FALSE
    /\ saveProgressTimeoutRef' = NoFlushTimer
    /\ \E data \in TeardownUpdates(rendered, viewTop) :
           updateReadingProgress(data, NoNavigation)
    /\ UNCHANGED <<storeVars, menuVars, asyncVars, fnVars, scrollVars, pageVars,
                   canvasChapter, currentSegmentIndex, rendered, viewTop,
                   persisted, arrived>>

InitFlush ==
    /\ ReaderIdle
    /\ PageIdle
    /\ FnIdle
    /\ ScrollIdle
    /\ canvasMounted = TRUE
    /\ canvasChapter \in CanvasChapters
    /\ currentSegmentIndex \in InitialSegments
    /\ rendered = [chapter |-> canvasChapter, currentSegmentIndex |-> currentSegmentIndex]
    /\ saveProgressTimeoutRef = NoFlushTimer
    /\ viewTop = 0
    /\ writes = <<>>
    /\ persisted = [n |-> 0, data |-> NoProgress]
    /\ arrived = 0
    /\ lastFlushed = [n |-> 0, data |-> NoProgress]
    /\ sinceMove = {}

NextFlush ==
    \/ \E v \in ViewTops :
           CanvasScroll(v)
    \/ IntersectionCallback
    \/ DebouncedFlush
    \/ CanvasRender
    \/ \E c \in CanvasChapters :
           HandleChapterButton(c)
    \/ \E i \in 1..MaxWrites, ok \in BOOLEAN :
           ProgressSettles(i, ok)
    \/ CanvasUnmount

SpecFlush == InitFlush /\ [][NextFlush]_vars

-----------------------------------------------------------------------------
(* ReaderSidebar: collectHighlightText, the context handed to the analysis *)
(*                                                                         *)
(* A string is the sequence of its characters.                             *)

MAX_CONTEXT_CHARS == 1200
CONTEXT_SEGMENT_DEPTH == 2

MaxSegments == 2        \* segments of a chapter in SpecContext

\* n times the character c
Rep(c, n) == [i \in 1..n |-> c]

Token(str, gap) == [s |-> str, gap |-> gap]
TextSegment(tokens) == [type |-> "text", tokens |-> tokens]
ImageSegment == [type |-> "image", tokens |-> <<>>]

RECURSIVE Join(_)
Join(strs) == IF strs = <<>> THEN <<>> ELSE Head(strs) \o Join(Tail(strs))

\* String.prototype.trim
RECURSIVE trimStart(_)
trimStart(str) == IF str # <<>> /\ Head(str) = " " THEN trimStart(Tail(str)) ELSE str

RECURSIVE trimEnd(_)
trimEnd(str) ==
    IF str # <<>> /\ str[Len(str)] = " " THEN trimEnd(SubSeq(str, 1, Len(str) - 1)) ELSE str

trim(str) == trimEnd(trimStart(str))

\* String.prototype.indexOf: the first position (from 0) or -1
indexOf(str, search) ==
    LET n == Len(str)
        m == Len(search)
        found == {pos \in 0..(n - m) : SubSeq(str, pos + 1, pos + m) = search}
    IN  IF found = {} THEN -1 ELSE CHOOSE pos \in found : \A q \in found : pos <= q

\* Array.prototype.slice(from, to) and String.prototype.slice(0, to), indices from 0
slice(seq, from, to) == SubSeq(seq, from + 1, Min(to, Len(seq)))

\* stringifySegment
stringifySegment(segment) ==
    IF segment.type # "text" THEN <<>>
    ELSE Join([i \in DOMAIN segment.tokens |->
                  (IF segment.tokens[i].gap /\ i > 1 THEN <<" ">> ELSE <<>>)
                  \o segment.tokens[i].s])

\* "." "!" "?" stand for the full-width full stop, exclamation mark and
\* question mark, "]" and "}" for the closing corner brackets
SentenceEnders == {".", "!", "?", "]"}
ClosingQuotes == {"]", "}"}

\* splitIntoSentences: the character at i (from 1) has been taken by the
\* look-ahead of the sentence end before it
RECURSIVE lookedAhead(_, _)
lookedAhead(text, i) ==
    /\ i > 1
    /\ text[i] \in ClosingQuotes
    /\ text[i - 1] \in SentenceEnders
    /\ ~lookedAhead(text, i - 1)

\* splitIntoSentences: a sentence is pushed after the character at i
sentenceEndsAt(text, i) ==
    \/ lookedAhead(text, i)
    \/ /\ text[i] \in SentenceEnders
       /\ ~(i + 1 <= Len(text) /\ text[i + 1] \in ClosingQuotes)

RECURSIVE cutAt(_, _, _)
cutAt(text, from, ends) ==
    IF ends = {}
    THEN IF trim(SubSeq(text, from, Len(text))) # <<>>
         THEN <<trim(SubSeq(text, from, Len(text)))>>
         ELSE <<>>
    ELSE LET e == CHOOSE x \in ends : \A y \in ends : x <= y
         IN  <<trim(SubSeq(text, from, e))>> \o cutAt(text, e + 1, ends \ {e})

\* splitIntoSentences
splitIntoSentences(text) ==
    SelectSeq(cutAt(text, 1, {i \in 1..Len(text) : sentenceEndsAt(text, i)}),
              LAMBDA str : Len(str) > 0)

\* the loop that extends the context backwards
RECURSIVE extendBefore(_, _, _, _, _, _)
extendBefore(sentences, combined, preIdx, preCount, maxChars, sentenceDepth) ==
    IF preIdx >= 0 /\ preCount < sentenceDepth
          /\ Len(combined) + Len(sentences[preIdx + 1]) + preCount <= maxChars
    THEN extendBefore(sentences, sentences[preIdx + 1] \o <<" ">> \o combined,
                      preIdx - 1, preCount + 1, maxChars, sentenceDepth)
    ELSE combined

\* the loop that extends the context forwards
RECURSIVE extendAfter(_, _, _, _, _, _)
extendAfter(sentences, combined, postIdx, postCount, maxChars, sentenceDepth) ==
    IF postIdx < Len(sentences) /\ postCount < sentenceDepth
          /\ Len(combined) + Len(sentences[postIdx + 1]) + 1 <= maxChars
    THEN extendAfter(sentences, combined \o <<" ">> \o sentences[postIdx + 1],
                     postIdx + 1, postCount + 1, maxChars, sentenceDepth)
    ELSE combined

\* buildContextFromSentences
buildContextFromSentences(sentences, targetStartSentenceIndex, targetEndSentenceIndex, maxChars, sentenceDepth) ==
    LET startIdx == Max(0, targetStartSentenceIndex)
        endIdx == Min(Len(sentences) - 1, targetEndSentenceIndex)
        combined == Join(slice(sentences, startIdx, endIdx + 1))
    IN  IF Len(combined) >= maxChars THEN slice(combined, 0, maxChars)
        ELSE trim(extendAfter(sentences,
                              extendBefore(sentences, combined, startIdx - 1, 0,
                                           maxChars, sentenceDepth),
                              endIdx + 1, 0, maxChars, sentenceDepth))

\* the tokens of segment s (from 0) that the highlight covers, as pushed
\* into targetTokens
targetTokensOf(segments, highlight, s) ==
    IF s + 1 \notin DOMAIN segments \/ segments[s + 1].type # "text" THEN <<>>
    ELSE LET tokens == segments[s + 1].tokens
             startT == IF s = highlight.start_segment_index
                       THEN highlight.start_token_idx ELSE 0
             endT == IF s = highlight.end_segment_index
                     THEN highlight.end_token_idx ELSE Len(tokens) - 1
         IN  Join([k \in 1..Max(0, endT - startT + 1) |->
                      LET t == startT + k - 1
                      IN  IF t + 1 \in DOMAIN tokens /\ tokens[t + 1].s # <<>>
                          THEN (IF tokens[t + 1].gap
                                   /\ ~(s = highlight.start_segment_index /\ t = startT)
                                THEN <<" ">> ELSE <<>>) \o tokens[t + 1].s
                          ELSE <<>>])

\* position (from 0) at which the search loops of collectHighlightText put
\* the start of sentence i (from 0)
RECURSIVE sentencePos(_, _)
sentencePos(sentences, i) ==
    IF i = 0 THEN 0 ELSE sentencePos(sentences, i - 1) + Len(sentences[i]) + 1

\* the smallest member of a set of sentence indices, 0 if there is none
firstOf(hits) == IF hits = {} THEN 0 ELSE CHOOSE i \in hits : \A j \in hits : i <= j

\* the first loop: the sentence that holds the start of targetText
sentenceOfStart(sentences, targetTextStartPos) ==
    firstOf({i \in 0..(Len(sentences) - 1) :
                /\ sentencePos(sentences, i) <= targetTextStartPos
                /\ targetTextStartPos < sentencePos(sentences, i) + Len(sentences[i + 1])})

\* the second loop: the sentence that holds the end of targetText
sentenceOfEnd(sentences, targetTextEndPos) ==
    firstOf({i \in 0..(Len(sentences) - 1) :
                /\ sentencePos(sentences, i) <= targetTextEndPos
                /\ targetTextEndPos <= sentencePos(sentences, i) + Len(sentences[i + 1])})

\* collectHighlightText, step 1: the text of the highlighted tokens
targetTextOf(highlight, segments) ==
    LET first == highlight.start_segment_index
        last == highlight.end_segment_index
    IN  Join([k \in 1..Max(0, last - first + 1) |->
                 targetTokensOf(segments, highlight, first + k - 1)])

\* collectHighlightText, steps 2 and 3: the text of the segments of the
\* highlight and of CONTEXT_SEGMENT_DEPTH segments on either side
fullTextOf(highlight, segments) ==
    LET first == highlight.start_segment_index
        last == highlight.end_segment_index
        from == Max(0, first - CONTEXT_SEGMENT_DEPTH)
        to == Min(Len(segments), last + 1 + CONTEXT_SEGMENT_DEPTH) - 1
        before == [k \in 1..Max(0, first - from) |-> from + k - 1]
        anchor == [k \in 1..Max(0, last - first + 1) |-> first + k - 1]
        after == [k \in 1..Max(0, to - last) |-> last + k]
        window == before \o anchor \o after
    IN  Join([k \in DOMAIN window |->
                 IF window[k] + 1 \in DOMAIN segments
                 THEN stringifySegment(segments[window[k] + 1])
                 ELSE <<>>])

\* collectHighlightText for a highlight that is in the list and a loaded chapter
collectHighlightText(highlight, segments) ==
    LET targetText == targetTextOf(highlight, segments)
        fullText == fullTextOf(highlight, segments)
        sentences == splitIntoSentences(fullText)
        targetTextStartPos == indexOf(fullText, targetText)
        targetTextEndPos == targetTextStartPos + Len(targetText)
        targetSentenceStartIdx ==
            IF targetTextStartPos >= 0
            THEN sentenceOfStart(sentences, targetTextStartPos)
            ELSE 0
        targetSentenceEndIdx ==
            IF targetTextStartPos >= 0
            THEN sentenceOfEnd(sentences, targetTextEndPos)
            ELSE 0
    IN  [targetText |-> targetText,
         contextText |->
             IF sentences = <<>> THEN <<>>
             ELSE buildContextFromSentences(sentences, targetSentenceStartIdx,
                      targetSentenceEndIdx, MAX_CONTEXT_CHARS, 3)]

\* ---- the chapters and highlights collectHighlightText is applied to ----

SegmentABC ==
    TextSegment(<<Token(<<"a">>, FALSE), Token(<<"a">>, FALSE), Token(<<".">>, FALSE),
                  Token(<<"b">>, FALSE), Token(<<"b">>, FALSE), Token(<<".">>, FALSE),
                  Token(<<"c">>, FALSE), Token(<<"c">>, FALSE), Token(<<".">>, FALSE)>>)
SegmentGap == TextSegment(<<Token(<<"b">>, TRUE), Token(<<".">>, FALSE)>>)
SegmentLong == TextSegment(<<Token(Rep("a", 599), FALSE), Token(<<".">>, FALSE)>>)
SegmentMid ==
    TextSegment(<<Token(Rep("b", 300), FALSE), Token(<<"c">>, FALSE),
                  Token(Rep("b", 298), FALSE), Token(<<".">>, FALSE)>>)
SegmentQuote ==
    TextSegment(<<Token(<<"a">>, FALSE), Token(<<".">>, FALSE), Token(<<"]">>, FALSE),
                  Token(<<"c">>, TRUE)>>)

ContextSegments ==
    {SegmentABC, SegmentGap, SegmentLong, SegmentMid, SegmentQuote, ImageSegment}

ContextChapters == UNION {[1..n -> ContextSegments] : n \in 1..MaxSegments}

\* the token addresses of a chapter
TokenAddresses(segments) ==
    {<<s, t>> \in (0..(Len(segments) - 1)) \X (0..8) :
        segments[s + 1].type = "text" /\ t < Len(segments[s + 1].tokens)}

\* where a stored highlight may start: at a token, or in a segment that
\* holds no tokens
StartAddresses(segments) ==
    TokenAddresses(segments) \cup
    {<<s, 0>> : s \in {k \in 0..(Len(segments) - 1) : segments[k + 1].type # "text"}}

ContextInputs ==
    {[highlight |-> [start_segment_index |-> from[1], start_token_idx |-> from[2],
                     end_segment_index |-> to[1], end_token_idx |-> to[2]],
      segments |-> segments] :
        <<segments, from, to>> \in
            {x \in ContextChapters \X ((0..(MaxSegments - 1)) \X (0..8))
                                   \X ((0..(MaxSegments - 1)) \X (0..8)) :
                /\ x[2] \in StartAddresses(x[1])
                /\ x[3] \in TokenAddresses(x[1])
                /\ \/ x[2][1] < x[3][1]
                   \/ x[2][1] = x[3][1] /\ x[2][2] <= x[3][2]}}

InitContext ==
    /\ ReaderIdle
    /\ PageIdle
    /\ CanvasIdle
    /\ ScrollIdle
    /\ call \in ContextInputs
    /\ ret = <<>>

ContextCall ==
    /\ ret = <<>>
    /\ ret' = <<collectHighlightText(call.highlight, call.segments)>>
    /\ UNCHANGED <<storeVars, menuVars, asyncVars, call, scrollVars, pageVars, canvasVars>>

NextContext == ContextCall

SpecContext == InitContext /\ [][NextContext]_vars

-----------------------------------------------------------------------------
(* Vocabulary of the properties *)

\* addresses of the tokens a segment list holds
ExistingTokens(segments) ==
    UNION {{<<i - 1, t>> : t \in 0..(segments[i].tokens - 1)} :
              i \in {k \in DOMAIN segments : segments[k].type = "text"}}

\* (segmentIndex, tokenIndex) order
LexLeq(a, b) == a[1] < b[1] \/ (a[1] = b[1] /\ a[2] <= b[2])

InRange(a, r) ==
    /\ LexLeq(<<r.start_segment_index, r.start_token_idx>>, a)
    /\ LexLeq(a, <<r.end_segment_index, r.end_token_idx>>)

\* the tokens of a chapter that a range covers
TokensInRange(r, segments) == {a \in ExistingTokens(segments) : InRange(a, r)}

Ids(hs) == {h.id : h \in SeqToSet(hs)}

HasPending(tempId) == \E i \in DOMAIN pendingHighlights : pendingHighlights[i].tempId = tempId

\* create requests applied optimistically and not settled yet
UnsettledCreates ==
    {r \in BagToSet(requests) : r.kind = "create"}
        \cup (IF pc = "createIssue" THEN {cur} ELSE {})

\* every token of range r in the loaded chapter is in the index
Covered(r) ==
    \A a \in TokensInRange(r, SegmentsOf(chapter)) : MapHas(highlightMap, a[1], a[2])

-----------------------------------------------------------------------------
(* C1 *)

\* C1 as stated: as long as a create is applied and not settled, every token
\* of the selected range is in the index with the style that was picked.
C1_MarkedUntilSettled ==
    \A r \in UnsettledCreates :
        \A a \in TokensInRange(r.range, SegmentsOf(r.chapter_index)) :
            MapGet(highlightMap, a[1], a[2]) = r.style

\* C1 (amended): every pending highlight belongs to a create that has not
\* settled, and as long as it is in the pending list (no setChapter or
\* resetReader has emptied the list) every token of its range is in the
\* index with the pending highlight's style.
C1_PendingRangeMarked ==
    \A i \in DOMAIN pendingHighlights :
        LET p == pendingHighlights[i]
        IN /\ \E r \in UnsettledCreates \cup (IF pc = "createAdded" THEN {cur} ELSE {}) :
                  r.tempId = p.tempId
           /\ p.chapter_index = chapterIndex
           /\ \A a \in TokensInRange(RangeOf(p), SegmentsOf(chapter)) :
                  MapGet(highlightMap, a[1], a[2]) = p.style_category

C1_Witness ==
    \E r \in BagToSet(requests) :
        /\ r.kind = "create"
        /\ HasPending(r.tempId)
        /\ Cardinality(TokensInRange(r.range, SegmentsOf(chapter))) > 1
        /\ Len(highlights) > 0

-----------------------------------------------------------------------------
(* C2 *)

-----------------------------------------------------------------------------
(* C3 *)

\* C3 as stated: after a failed create no token of the range is in the index.
C3_RangeGoneFromIndex ==
    (pc = "createRolledBack" /\ cur.chapter_index = chapterIndex) =>
        \A a \in TokensInRange(cur.range, SegmentsOf(chapter)) :
            ~MapHas(highlightMap, a[1], a[2])

\* C3 (amended): when a create fails the pending entry is removed and the
\* confirmed list is left as it is; a token of the range stays in the index
\* only where another active range covers it, with that range's style.
C3_FailureRollsBack ==
    /\ [](pc = "createRolledBack" =>
            /\ ~HasPending(cur.tempId)
            /\ \A a \in TokensInRange(cur.range, SegmentsOf(chapter)) :
                   MapHas(highlightMap, a[1], a[2]) =>
                       \E h \in SeqToSet(highlights) \cup SeqToSet(pendingHighlights) :
                           /\ InRange(a, RangeOf(h))
                           /\ MapGet(highlightMap, a[1], a[2]) = h.style_category)
    /\ [][pc' = "createRolledBack" => highlights' = highlights]_vars

C3_Witness ==
    /\ pc = "createRolledBack"
    /\ cur.chapter_index = chapterIndex
    /\ \E a \in TokensInRange(cur.range, SegmentsOf(chapter)) : MapHas(highlightMap, a[1], a[2])
    /\ \E a \in TokensInRange(cur.range, SegmentsOf(chapter)) : ~MapHas(highlightMap, a[1], a[2])

-----------------------------------------------------------------------------
(* C4 *)

\* C4: the highlight is out of the confirmed list when the delete request is
\* issued, and neither outcome of the request changes the confirmed list or
\* the index: a failed delete leaves what a successful one leaves.
C4_DeleteNotRolledBack ==
    /\ [](pc = "deleteIssue" => cur.id \notin Ids(highlights))
    /\ [][(pc' \in {"deleteDone", "deleteCatch"} \/ pc \in {"deleteDone", "deleteCatch"}) =>
            highlights' = highlights /\ highlightMap' = highlightMap]_vars

C4_Witness ==
    /\ pc = "deleteCatch"
    /\ cur.id \notin Ids(highlights)
    /\ chapter # NoChapter
    /\ cur.id \in Ids(ChapterData[chapter].highlights)

-----------------------------------------------------------------------------
(* C5 *)

SameHighlight(r1, r2) ==
    \/ r1.kind = "delete" /\ r2.kind = "delete" /\ r1.id = r2.id
    \/ /\ r1.kind = "create" /\ r2.kind = "create"
       /\ r1.chapter_index = r2.chapter_index /\ r1.range = r2.range

\* C5: no two outstanding requests of the selection menu are for the same
\* highlight (two deletes of one id, two creates of one range of a chapter).
C5_OneOutstandingPerHighlight ==
    /\ \A r \in BagToSet(requests) : requests[r] = 1
    /\ \A r1, r2 \in BagToSet(requests) : r1 # r2 => ~SameHighlight(r1, r2)

-----------------------------------------------------------------------------
(* C6 *)

\* confirmed entries by position, pending entries by position
ActiveEntries ==
    {<<"confirmed", i>> : i \in DOMAIN highlights} \cup {<<"pending", i>> : i \in DOMAIN pendingHighlights}

EntryOf(e) == IF e[1] = "confirmed" THEN highlights[e[2]] ELSE pendingHighlights[e[2]]

\* the confirmed entry a succeeding create has just added, next to its own
\* pending entry that the handler removes in the same run
OwnPendingOf(e1, e2) ==
    /\ pc = "createAdded"
    /\ e1[1] = "confirmed" /\ highlights[e1[2]].id = cur.id
    /\ e2[1] = "pending" /\ pendingHighlights[e2[2]].tempId = cur.tempId

\* C6: no two active highlights (confirmed or pending) have the same start
\* and end addresses.
C6_NoDuplicateRange ==
    \A e1, e2 \in ActiveEntries :
        (e1 # e2 /\ RangeOf(EntryOf(e1)) = RangeOf(EntryOf(e2))) =>
            OwnPendingOf(e1, e2) \/ OwnPendingOf(e2, e1)

-----------------------------------------------------------------------------
(* C7 *)

\* C7: the stored index is the index rebuilt from the confirmed list, the
\* pending list and the segments of the chapter in the store.
C7_IndexIsDerived ==
    highlightMap = buildHighlightMap(highlights, pendingHighlights, SegmentsOf(chapter))

C7_Witness ==
    /\ chapter # NoChapter
    /\ Len(highlights) = 2
    /\ Len(pendingHighlights) = 2
    /\ Cardinality(highlightMap) > 2

-----------------------------------------------------------------------------
(* C8 *)

ThreeByFive == <<Text(5), Text(5), Text(5)>>

\* C8: three segments of five tokens, one highlight (0,3)..(1,2): the index
\* holds (0,3) (0,4) (1,0) (1,1) (1,2) and nothing else.
C8_ExactlyFiveKeys ==
    (/\ ret # <<>>
     /\ call.segments = ThreeByFive
     /\ call.pending = <<>>
     /\ Len(call.highlights) = 1
     /\ RangeOf(call.highlights[1]) = Range(0, 3, 1, 2)) =>
        MapKeys(ret[1]) = {<<0, 3>>, <<0, 4>>, <<1, 0>>, <<1, 1>>, <<1, 2>>}

-----------------------------------------------------------------------------
(* C9 *)

\* C9: every key of an index built with the chapter's segments is the
\* address of a token the chapter holds.
C9_KeysNameTokens ==
    (ret # <<>> /\ call.segments # <<>>) =>
        \A r \in ret[1] :
            /\ r.seg + 1 \in DOMAIN call.segments
            /\ call.segments[r.seg + 1].type = "text"
            /\ r.hi < call.segments[r.seg + 1].tokens

-----------------------------------------------------------------------------
(* C10 *)

\* no animation frame requested, no timer pending, no size notification to
\* deliver: the hook runs again only if the content changes its height or
\* the options change
NothingScheduled ==
    /\ rafs = <<>>
    /\ timers = <<>>
    /\ ~resizePending

\* C10: a restoration started with a non-zero stored fraction reaches
\* Restored whatever the layout does, and does not retry for ever: once the
\* effect has run and nothing is scheduled any more, the hook is Restored.
C10_RestoredOnceQuiet ==
    (effects > 0 /\ NothingScheduled) => isRestoredRef

-----------------------------------------------------------------------------
(* C11 *)

\* the options ask for a restoration: a stored fraction above 0 and no
\* chapter navigation
RestorationAsked == effects > 0 /\ initialPercentage > 0 /\ ~isChapterSwitch

\* the offset is within max(5 px, 1% of the extent) of fraction * extent for
\* the extent the layout has now
NearTarget ==
    LET maxScrollTop == MaxScrollTop(layout)
    IN  Abs(scrollTop * 100 - initialPercentage * maxScrollTop) < Max(5 * 100, maxScrollTop)

\* C11: when the content extent has stopped changing, the restoration is
\* Restored and the offset is within max(5 px, 1% of the final extent) of
\* fraction * final extent: with the stored fraction 0.42 and an extent that
\* grows from 2000 to 3200 the offset ends near 1344 and not at 840.  Stated
\* for the states in which the hook is Restored, nothing is scheduled, every
\* scroll command was carried out, the reader has not scrolled and the
\* content is scrollable.
C11_FinalOffsetAtFinalExtent ==
    (RestorationAsked /\ isRestoredRef /\ NothingScheduled /\ misses = 0
        /\ scrolls = 0 /\ MaxScrollTop(layout) > 0)
    => NearTarget

-----------------------------------------------------------------------------
(* C12 *)

\* C12: no scroll event caused by a scroll command of the restoration leads
\* to a call of onProgressChange: a call is never the outcome of a debounced
\* save that such an event has set.
C12_NoSaveFromRestoration ==
    progressChange.called => progressChange.by # "restore"

-----------------------------------------------------------------------------
(* C13 *)

\* C13: flushes in succession with no change of the position in between
\* yield one snapshot value: every write issued since the position (chapter,
\* segment of the store, scroll offset) last changed carries the same
\* (chapter, segment, offset).
C13_FlushIsIdempotent == Cardinality(sinceMove) <= 1

\* the debounced save of the scroll listener calls onProgressChange only when
\* the fraction differs from the last saved one by more than 0.001
DebouncedSaveSkipsEqual ==
    progressChange.called => FarApart(progressChange.safe, progressChange.last)

-----------------------------------------------------------------------------
(* C14 *)

\* C14: with flushes in quick succession whose requests settle in any order,
\* the persisted position does not end as an older snapshot than the last
\* one flushed: once every request has settled and the last flush has been
\* stored, the backend holds the payload of the last flush.
C14_LastFlushWins ==
    (writes = <<>> /\ lastFlushed.n > 0 /\ arrived = lastFlushed.n)
    => persisted.data = lastFlushed.data

\* collectHighlightText has returned for the highlight and chapter of call
Extracted == ret # <<>> /\ "highlight" \in DOMAIN call

\* C15: for the budget of 1200 characters, whatever the highlight and the
\* chapter text, the returned contextText is at most 1200 characters long.
C15_ContextWithinBudget ==
    Extracted => Len(ret[1].contextText) <= MAX_CONTEXT_CHARS

\* C16: when the reconstructed targetText is no longer than the budget, the
\* returned contextText contains it as a contiguous substring.
C16_ContextContainsTarget ==
    (Extracted /\ Len(ret[1].targetText) <= MAX_CONTEXT_CHARS)
        => indexOf(ret[1].contextText, ret[1].targetText) >= 0

\* C17: when the substring search for targetText in the flattened context
\* text fails, the extraction returns the reconstructed targetText together
\* with an empty contextText.
C17_EmptyContextWhenNotLocated ==
    (Extracted /\ indexOf(fullTextOf(call.highlight, call.segments),
                          targetTextOf(call.highlight, call.segments)) < 0)
        => /\ ret[1].targetText = targetTextOf(call.highlight, call.segments)
           /\ ret[1].contextText = <<>>

\* the closure of the restoration in flight; those before it belong to
\* earlier runs of the effect
CurrentRun == Len(closures)
CurrentTarget == (closures[CurrentRun].p * MaxScrollTop(layout)) \div 100

\* a delayed tryRestore has come due in this step
TimerFired == timers # <<>> /\ timers' = Tail(timers)

\* the callbacks requested during this step: the tail of rafs' when an effect
\* or a timer has run, all of rafs' after a frame (the frame has run
\* everything requested before it)
Requested ==
    IF TimerFired \/ effects' # effects \/ rafs' = rafs
    THEN SubSeq(rafs', Len(rafs) + 1, Len(rafs'))
    ELSE rafs'

\* tryRestore of an earlier run has just assigned its own target to scrollTop
EarlierRunScrolls ==
    \E k \in DOMAIN Requested :
        /\ Requested[k].kind = "check"
        /\ Requested[k].gen < CurrentRun
        /\ Requested[k].target # CurrentTarget

\* the engine has just become Restored and nothing of the run in flight ran
EarlierRunMarksRestored ==
    /\ ~isRestoredRef
    /\ isRestoredRef'
    /\ \A k \in DOMAIN rafs : rafs[k].gen < CurrentRun
    /\ ~TimerFired

\* C18: once a new restoration has started, nothing that the previous
\* restoration has scheduled (animation-frame callback, delayed retry)
\* assigns the previous target to the scroll offset or marks the engine
\* Restored.
C18_PreviousRestorationAbandoned ==
    [][(RestorationAsked /\ effects' = effects /\ CurrentRun > 1)
          => ~EarlierRunScrolls /\ ~EarlierRunMarksRestored]_vars

-----------------------------------------------------------------------------
(* C19 *)

StartsBeforeEnd(h) ==
    LexLeq(<<h.start_segment_index, h.start_token_idx>>,
           <<h.end_segment_index, h.end_token_idx>>)

\* the keys processHighlight writes for h lie between the start and the end
\* of h (a run lies inside the range when its first and last key do)
WritesWithin(h, segments) ==
    \A r \in processHighlight(EmptyMap, h, segmentTokenCounts(segments)) :
        /\ InRange(<<r.seg, r.lo>>, RangeOf(h))
        /\ InRange(<<r.seg, r.hi>>, RangeOf(h))

\* the key is inside one of the ranges of the two lists
InSomeRange(a, hs, pending) ==
    \/ \E i \in DOMAIN hs : InRange(a, RangeOf(hs[i]))
    \/ \E i \in DOMAIN pending : InRange(a, RangeOf(pending[i]))

\* C19: every key written for a range with start <= end lies between start
\* and end in (segment, token) order, with or without the token counts of
\* the segments; so every key of the built index lies inside a range of the
\* lists.
C19_KeysWithinRange ==
    ret # <<>> =>
        /\ \A i \in DOMAIN call.highlights :
               StartsBeforeEnd(call.highlights[i]) =>
                   WritesWithin(call.highlights[i], call.segments)
        /\ \A i \in DOMAIN call.pending :
               StartsBeforeEnd(call.pending[i]) =>
                   WritesWithin(call.pending[i], call.segments)
        /\ \A r \in ret[1] :
               /\ InSomeRange(<<r.seg, r.lo>>, call.highlights, call.pending)
               /\ InSomeRange(<<r.seg, r.hi>>, call.highlights, call.pending)

\* an index built without token counts from a confirmed and a pending range,
\* one of which runs over a whole segment
C19_Witness ==
    /\ ret # <<>>
    /\ call.segments = <<>>
    /\ Len(call.highlights) = 1
    /\ Len(call.pending) = 1
    /\ \E r \in ret[1] : r.hi = Sentinel

-----------------------------------------------------------------------------
(* C20 *)

\* the ranges in the order of processing: the confirmed list, then the
\* pending list
ProcessingOrder == call.highlights \o call.pending

\* positions in ProcessingOrder of the ranges that cover the token a
Covering(a) == {i \in DOMAIN ProcessingOrder : InRange(a, RangeOf(ProcessingOrder[i]))}

LastCovering(a) == CHOOSE i \in Covering(a) : \A j \in Covering(a) : j <= i

\* C20: a token inside several ranges carries the style of the range
\* processed last, the confirmed ranges being processed in list order before
\* the pending ranges in list order; a token inside a confirmed and a pending
\* range carries the style of the pending one.
C20_LastProcessedWins ==
    ret # <<>> =>
        \A a \in ExistingTokens(call.segments) :
            Covering(a) # {} =>
                MapGet(ret[1], a[1], a[2]) = ProcessingOrder[LastCovering(a)].style_category

\* a token inside two confirmed ranges of different styles and two pending
\* ranges of different styles
C20_Witness ==
    /\ ret # <<>>
    /\ \E a \in ExistingTokens(call.segments) :
           /\ Cardinality(Covering(a)) = 4
           /\ Len(call.highlights) = 2
           /\ call.highlights[1].style_category # call.highlights[2].style_category
           /\ call.pending[1].style_category # call.pending[2].style_category
           /\ call.pending[2].style_category # call.highlights[2].style_category

-----------------------------------------------------------------------------
(* C21 *)

\* addresses of tokens the chapter may hold: its tokens when the segments
\* are passed, and when they are not, low indices and the highest indices
\* of a segment of fewer than 10000 tokens
PossibleTokens(segments) ==
    IF segments = <<>>
    THEN (0..2) \X ((0..7) \cup {Sentinel - 2, Sentinel - 1})
    ELSE ExistingTokens(segments)

\* C21: for every range of the two lists and every token of the chapter whose
\* address lies between the start and the end of the range, the built index
\* has the key of the token, with the token counts of the segments known or
\* unknown.
C21_NeverUnderMarks ==
    ret # <<>> =>
        \A i \in DOMAIN ProcessingOrder :
            \A a \in PossibleTokens(call.segments) :
                InRange(a, RangeOf(ProcessingOrder[i])) => MapHas(ret[1], a[1], a[2])

\* an index built without token counts for a range over several segments:
\* the last possible token of its first segment is marked
C21_Witness ==
    /\ ret # <<>>
    /\ call.segments = <<>>
    /\ \E i \in DOMAIN ProcessingOrder :
           /\ ProcessingOrder[i].start_segment_index < ProcessingOrder[i].end_segment_index
           /\ MapHas(ret[1], ProcessingOrder[i].start_segment_index, Sentinel - 1)

-----------------------------------------------------------------------------
(* C22 *)

\* C22: a create request issued in one chapter that succeeds after
\* setChapter has loaded another chapter adds nothing to the confirmed list
\* of the chapter now loaded (stated just after the success branch of
\* handleHighlight has called addHighlight).
C22_NoEntryFromOtherChapter ==
    (pc = "createAdded" /\ chapter # NoChapter /\ cur.chapter_index # chapter)
        => cur.id \notin Ids(highlights)

-----------------------------------------------------------------------------
(* C23 *)

TempIds(q) == {q[i].tempId : i \in DOMAIN q}

\* the pending entry that create request r has added
OwnPending(r) == Pending(r.tempId, r.range, r.style, r.chapter_index)

\* the pending entries that are not the entry of create request r
OthersOf(r) == SelectSeq(pendingHighlights, LAMBDA h : h # OwnPending(r))

\* no two pending entries and no two unsettled creates share a temporary id,
\* and a pending entry with the temporary id of an unsettled create is the
\* entry that create has added
TempIdsDistinct ==
    /\ \A i, j \in DOMAIN pendingHighlights :
           i # j => pendingHighlights[i].tempId # pendingHighlights[j].tempId
    /\ \A r \in BagToSet(requests) : r.kind = "create" => CopiesIn(r, requests) = 1
    /\ \A r1, r2 \in UnsettledCreates :
           r1.tempId = r2.tempId => r1.range = r2.range /\ r1.chapter_index = r2.chapter_index
    /\ \A r \in UnsettledCreates :
           \A i \in DOMAIN pendingHighlights :
               pendingHighlights[i].tempId = r.tempId =>
                   pendingHighlights[i] = Pending(r.tempId, r.range, r.style, r.chapter_index)

\* a create settles: removePendingHighlight(tempId) in the success branch or
\* in the catch block
CreateSettles ==
    /\ pc \in {"idle", "createAdded"}
    /\ pc' \in {"createFinally", "createRolledBack"}

\* C23: the temporary id of a create differs from that of every other
\* pending highlight alive with it, and settling a create, with success or
\* failure, removes its own pending entry and leaves the others in place.
C23_SettlesOwnPendingOnly ==
    /\ []TempIdsDistinct
    /\ [][CreateSettles =>
             /\ cur'.tempId \notin TempIds(pendingHighlights')
             /\ pendingHighlights' = OthersOf(cur')
             /\ Len(pendingHighlights) - Len(pendingHighlights') <= 1]_vars

\* a create of an earlier chapter has settled and the pending entry of a
\* later create is still in the list
C23_Witness ==
    /\ pc \in {"createFinally", "createRolledBack"}
    /\ pendingHighlights # <<>>
    /\ \E r \in UnsettledCreates : r.tempId \in TempIds(pendingHighlights)

\* a previous/next/table-of-contents navigation
Navigates ==
    \/ handlePrevChapter
    \/ handleNextChapter
    \/ \E i \in DOMAIN chapterList : handleChapterSelect(chapterList[i])

\* the restore effect runs and starts a restoration: a closure with p and
\* restoreAttempts is created and tryRestore is called
EntersRestoring == effects' = effects + 1 /\ Len(closures') > Len(closures)

\* the view of the chapter is rendered after the step
ShownAfter == Shown(progressData', currentChapterIndex', fetched')

\* the data of a chapter arrives after another chapter had been loaded first
LaterLoad == ChapterFetched /\ firstLoadedChapter # NoChapter

AttemptsWithinCap ==
    \A g \in DOMAIN closures : closures[g].restoreAttempts <= MAX_RESTORE_ATTEMPTS

\* the next callback of the frame is the check of an attempt made in the
\* present layout, the counter has reached the cap and the offset is not
\* within the threshold of the target
CapCheck ==
    /\ ~isRestoredRef
    /\ rafs # <<>>
    /\ Head(rafs).kind = "check"
    /\ closures[Head(rafs).gen].restoreAttempts >= MAX_RESTORE_ATTEMPTS
    /\ Head(rafs).maxScrollTop = MaxScrollTop(layout)
    /\ Abs(scrollTop - Head(rafs).target) * 100 >= Max(5 * 100, MaxScrollTop(layout))

\* C25: in a restoration in scrollable content of constant height the attempt
\* counter never exceeds 50, and the check that finds the counter at 50 and
\* the offset outside the threshold makes the engine Restored, leaves the
\* offset where it is and records offset / extent as the last saved fraction
C25_CapEndsRestoration ==
    /\ []AttemptsWithinCap
    /\ [][AnimationFrame /\ CapCheck =>
              /\ isRestoredRef'
              /\ scrollTop' = scrollTop
              /\ lastSavedPercentageRef' = Frac(scrollTop, MaxScrollTop(layout))]_vars

C25_Witness ==
    /\ isRestoredRef
    /\ \E g \in DOMAIN closures :
           /\ closures[g].restoreAttempts = MAX_RESTORE_ATTEMPTS
           /\ lastSavedPercentageRef # Frac(closures[g].p, 100)
    /\ lastSavedPercentageRef = Frac(scrollTop, MaxScrollTop(layout))

\* the step is not a run of the restore effect: initialPercentage and
\* isChapterSwitch are what they were
OptionsKept == effects' = effects

\* no scroll command of a restoration in the step: no check is requested, no
\* command is missed, and the offset moves only because the content shrinks
NoRestorationScroll ==
    /\ (\E i \in DOMAIN rafs' : rafs'[i].kind = "check") => rafs' = rafs
    /\ misses' = misses
    /\ scrollTop' # scrollTop => resizes' # resizes

\* C26: once the engine is Restored, as long as the options of the hook do
\* not change, no frame, timer or change of the content height makes it
\* leave Restored or issue a restoration scroll command
C26_RestoredIsTerminal ==
    [][isRestoredRef /\ OptionsKept => isRestoredRef' /\ NoRestorationScroll]_vars

\* Restored with the observer still observing: a resize notification has been
\* delivered (restoreAttempts is 0 again) and its timer is pending
C26_Witness ==
    /\ isRestoredRef
    /\ resizeObserverRef # NoObserver
    /\ closures[resizeObserverRef].restoreAttempts = 0
    /\ timers # <<>>

\* the observer has reported the segment at the centre of the viewport, the
\* view has rendered with it, and no debounced flush is pending: without a
\* scroll, a chapter button or the teardown nothing more is sent
Quiet ==
    /\ canvasMounted
    /\ rendered = [chapter |-> canvasChapter, currentSegmentIndex |-> currentSegmentIndex]
    /\ CentreSegment(viewTop) = currentSegmentIndex
    /\ saveProgressTimeoutRef = NoFlushTimer

\* C27: when the current segment has changed to k and the view has come to
\* rest (the debounce interval is over), the last snapshot sent to the
\* persistence service carries the chapter and segment index k of the view
C27_LatestPositionPersisted ==
    Quiet /\ lastFlushed.n > 0 =>
        /\ lastFlushed.data.current_chapter_index = canvasChapter
        /\ lastFlushed.data.current_segment_index = currentSegmentIndex

\* the position of the view: the store's chapter and segment and the offset
\* of the segment in the viewport
CurrentPosition ==
    ProgressUpdate([chapter |-> canvasChapter, currentSegmentIndex |-> currentSegmentIndex],
                   viewTop)

\* the view has rendered the chapter and segment the store holds
RenderedCurrent ==
    rendered = [chapter |-> canvasChapter, currentSegmentIndex |-> currentSegmentIndex]

\* a chapter button is pressed: the flush is sent and nothing navigates yet
FlushBeforeNavigation ==
    \A c \in CanvasChapters :
        HandleChapterButton(c) =>
            /\ canvasChapter' = canvasChapter
            /\ lastFlushed'.n = lastFlushed.n + 1
            /\ \E i \in DOMAIN writes' : writes'[i].n = lastFlushed'.n /\ writes'[i].then = c

\* the chapter changes only in the step in which the request of a flush
\* for that chapter settles
NavigationAfterSettle ==
    canvasChapter' # canvasChapter =>
        \E i \in DOMAIN writes :
            /\ writes[i].then = canvasChapter'
            /\ writes' = SubSeq(writes, 1, i - 1) \o SubSeq(writes, i + 1, Len(writes))

\* the request of a flush fails: the navigation it waits for is carried out
NavigationAfterFailure ==
    \A i \in DOMAIN writes :
        ProgressSettles(i, FALSE) /\ writes[i].then # NoNavigation /\ canvasMounted =>
            canvasChapter' = writes[i].then

\* the view is torn down: the snapshot sent is the position of the view
TeardownSendsPosition ==
    canvasMounted /\ ~canvasMounted' /\ RenderedCurrent =>
        lastFlushed'.n = lastFlushed.n + 1 /\ lastFlushed'.data = CurrentPosition

\* C28: a chapter button sends the flush before anything navigates, the
\* navigation is carried out only when the request of that flush settles and
\* also when it fails, and the teardown of the view sends the snapshot of the
\* current position
C28_FlushThenNavigate ==
    [][/\ FlushBeforeNavigation
       /\ NavigationAfterSettle
       /\ NavigationAfterFailure
       /\ TeardownSendsPosition]_vars

\* the existing tokens of segment s (from 0) that lie between the start and
\* the end address of the highlight, in order
CoveredIn(highlight, segments, s) ==
    IF segments[s + 1].type # "text" THEN <<>>
    ELSE SelectSeq([t \in 1..Len(segments[s + 1].tokens) |->
                       [token |-> segments[s + 1].tokens[t], at |-> t - 1]],
                   LAMBDA x :
                       /\ s = highlight.start_segment_index => x.at >= highlight.start_token_idx
                       /\ s = highlight.end_segment_index => x.at <= highlight.end_token_idx)

\* the existing tokens the range covers, in address order
CoveredTokens(highlight, segments) ==
    LET first == highlight.start_segment_index
        last == Min(highlight.end_segment_index, Len(segments) - 1)
    IN  Join([k \in 1..Max(0, last - first + 1) |->
                 LET covered == CoveredIn(highlight, segments, first + k - 1)
                 IN  [i \in DOMAIN covered |-> covered[i].token]])

\* their surface forms, with one space before each token flagged gap except
\* the first of them
SpacedSurface(tokens) ==
    Join([k \in DOMAIN tokens |->
             (IF tokens[k].gap /\ k > 1 THEN <<" ">> ELSE <<>>) \o tokens[k].s])

\* C29: targetText is the concatenation, in address order, of the surface
\* forms of the existing tokens the range covers, with one space before each
\* token flagged gap except the first token of the range, also for a range
\* over several segments or one that starts in a segment without tokens
C29_TargetTextIsCoveredSurface ==
    ret # <<>> =>
        ret[1].targetText = SpacedSurface(CoveredTokens(call.highlight, call.segments))

\* the sentences of the flattened text and the sentence range of the target,
\* as collectHighlightText hands them to buildContextFromSentences
SentencesOf(highlight, segments) == splitIntoSentences(fullTextOf(highlight, segments))

TargetRangeOf(highlight, segments) ==
    LET at == indexOf(fullTextOf(highlight, segments), targetTextOf(highlight, segments))
        sentences == SentencesOf(highlight, segments)
    IN  IF at < 0 THEN [first |-> 0, last |-> 0]
        ELSE [first |-> Max(0, sentenceOfStart(sentences, at)),
              last |-> Min(Len(sentences) - 1,
                           sentenceOfEnd(sentences,
                                         at + Len(targetTextOf(highlight, segments))))]

\* sentences added in front, one at a time, at most depth of them, as long as
\* the text with the sentence and its separator stays within the budget
RECURSIVE WithinBudgetBefore(_, _, _, _, _, _)
WithinBudgetBefore(sentences, text, idx, count, budget, depth) ==
    IF idx >= 0 /\ count < depth /\ Len(sentences[idx + 1]) + 1 + Len(text) <= budget
    THEN WithinBudgetBefore(sentences, sentences[idx + 1] \o <<" ">> \o text,
                            idx - 1, count + 1, budget, depth)
    ELSE text

\* the same behind
RECURSIVE WithinBudgetAfter(_, _, _, _, _, _)
WithinBudgetAfter(sentences, text, idx, count, budget, depth) ==
    IF idx < Len(sentences) /\ count < depth /\ Len(text) + 1 + Len(sentences[idx + 1]) <= budget
    THEN WithinBudgetAfter(sentences, text \o <<" ">> \o sentences[idx + 1],
                           idx + 1, count + 1, budget, depth)
    ELSE text

\* the context the expansion rule gives for the target sentences first..last
ExpandedContext(sentences, first, last, budget, depth) ==
    LET target == Join(slice(sentences, first, last + 1))
    IN  IF Len(target) >= budget THEN slice(target, 0, budget)
        ELSE trim(WithinBudgetAfter(sentences,
                                    WithinBudgetBefore(sentences, target, first - 1, 0,
                                                       budget, depth),
                                    last + 1, 0, budget, depth))

\* C30: the context is the target sentences extended by whole sentences, at
\* most 3 in front and at most 3 behind, where each side stops at the first
\* sentence whose addition would take the text over the budget; target
\* sentences that reach the budget on their own give their first 1200
\* characters and nothing else
C30_ExpansionStopsAtBudget ==
    Extracted /\ SentencesOf(call.highlight, call.segments) # <<>> =>
        ret[1].contextText =
            ExpandedContext(SentencesOf(call.highlight, call.segments),
                            TargetRangeOf(call.highlight, call.segments).first,
                            TargetRangeOf(call.highlight, call.segments).last,
                            MAX_CONTEXT_CHARS, 3)


====
